---- MODULE Spec2Model ----
(***************************************************************************)
(* HLSpresso: the progress reporter (pkg/progress), the remote fetcher     *)
(* (pkg/downloader), the adaptive-stream builder (pkg/hls) and the         *)
(* orchestrator (pkg/transcoder) as one state machine.                     *)
(*                                                                         *)
(* Spec     drives one DefaultReporter through its public API.             *)
(* SpecBuf  drives one DefaultReporter with a single Update argument, long *)
(*          enough to fill the 10-slot update channel.                     *)
(* SpecInc  runs NumInc goroutines that each call Increment once.          *)
(* SpecRun  is one Transcoder: NewWithDeps followed by one Transcode call. *)
(***************************************************************************)
EXTENDS Integers, Sequences, FiniteSets, TLC

\* ------------------------------------------------------------------ bounds
MaxTotal    == 2    \* Start totals are 0..MaxTotal, Update arguments -1..MaxTotal+1
MaxTime     == 1    \* the clock runs 0..MaxTime
MaxThrottle == 1    \* WithThrottle values are 0..MaxThrottle
MaxCalls    == 4    \* API calls per behaviour of Spec
MaxBufCalls == 12   \* API calls per behaviour of SpecBuf
NumInc      == 2    \* goroutines calling Increment in SpecInc
MaxChunks   == 2    \* chunks (and bytes) of a download body
MaxDownloads == 2   \* Download calls per behaviour of SpecDl
MaxLines    == 2    \* progress lines the encoder writes, and the frame estimate

\* ------------------------------------------------------- program constants
ChanCap == 10       \* make(chan ProgressEvent, 10)

\* ------------------------------------------------------------------ state
VARIABLES
    now,         \* time.Now()
    opts,        \* DefaultReporter.opts (throttle, progressFilePath, progressFileFormat)
    fsWritable,  \* whether os.WriteFile on the progress file succeeds
    Total,       \* DefaultReporter.Total
    Current,     \* DefaultReporter.Current
    Bar,         \* DefaultReporter.Bar: "nil" or "set"
    Event,       \* DefaultReporter.Event
    updatesCh,   \* DefaultReporter.updatesCh: the buffered snapshots
    chClosed,    \* whether updatesCh has been closed
    lastUpdate,  \* DefaultReporter.lastUpdate
    file,        \* content of the progress file
    panicked,    \* the process died of a runtime panic
    lastOp,      \* the last call made on the reporter, and whether Bar was set when it was made
    lastRecv,    \* the last snapshot the subscriber took from Updates()
    calls,       \* number of calls made on the reporter
    incPc,       \* Increment goroutines: "idle", "read", "update", "done"
    incLocal,    \* the r.Current each Increment goroutine read
    incBase,     \* r.Current when the Increment goroutines were launched
    ctor,        \* the constructor the caller uses: "New" or "NewWithDeps"
    options,     \* Transcoder.options
    progRep,     \* Transcoder.progRep: "nil" or "reporter"
    downloader,  \* Transcoder.downloader (the dl argument before construction): "nil" or "set"
    pc,          \* position of the run
    result,      \* what the constructor or Transcode returned
    inputPath,   \* the input handleInput resolved
    proc,        \* the encoder subprocess: "none", "running", "exited"
    exitOK,      \* whether the subprocess exited with status 0
    emitted,     \* progress lines the subprocess has written to stderr
    stderrPipe,  \* lines written to the stderr pipe and not yet read
    pipeClosed,  \* Wait has closed the read side of the stderr pipe
    rdPc,        \* the stderr reader goroutine: "none", "scan", "update", "done"
    rdLine,      \* the line the reader goroutine holds
    rdBuf,       \* lines the bufio.Scanner has read from the pipe and not yet returned
    totalFrames, \* CreateHLS's totalFrames
    contentLength, \* resp.ContentLength of the download
    dlRead,      \* progressReader.read: bytes copied so far
    dlBuf,       \* bytes io.Copy has read and not yet written to the destination
    destFile,    \* the download destination file: its state and content
    requests,    \* HTTP requests sent by client.Do
    repLog,      \* calls the current Download call has made on its progress reporter
    dlResult,    \* what the last Download call returned
    dlCalls,     \* number of Download calls made
    respStatus,  \* resp.StatusCode of the last response, 0 when there was none
    srcWidth,    \* originalWidth given to GenerateAutoResolutions
    srcHeight,   \* originalHeight given to GenerateAutoResolutions
    resolutions,      \* what GenerateAutoResolutions returned, <<>> before the call
    genOptions,  \* Generator.options of the hls.Generator whose arguments are built
    ffmpegArgs,  \* what buildFFmpegArgs returned, <<>> before the call
    ctxDone,     \* the context given to Transcode / CreateHLS is cancelled or past its deadline
    spawned,     \* the subprocesses started so far, in order
    outFile,     \* the primary output (MP4 file or master playlist): "absent", "old", "new"
    runPc,       \* two Transcode calls on one Transcoder: the position of each
    runDims,     \* the source dimensions each call's probe reported
    runTiers,    \* the resolutions each call handed to createHLSStreams
    sharedPrev,  \* t.options.HLSResolutions before its last assignment
    lastWriter,  \* the call that last assigned t.options.HLSResolutions, 0 if none
    runResult    \* the error each call returned, NoResult while it has returned none

\* ---------------------------------------------------------------- helpers
Abs(n) == IF n < 0 THEN -n ELSE n

DigitChar == <<"0", "1", "2", "3", "4", "5", "6", "7", "8", "9">>

RECURSIVE Digits(_)
Digits(n) ==
    IF n < 10 THEN <<DigitChar[n + 1]>>
    ELSE Digits(n \div 10) \o <<DigitChar[(n % 10) + 1]>>

\* ------------------------------------------------------ natural numbers
\* Natural numbers beyond 2^31: little-endian sequences of limbs in base
\* 2^15 without high zero limbs; <<>> is 0.
Base == 2 ^ 15

Pow2(k) == 2 ^ k

MaxOf(S) == CHOOSE x \in S : \A y \in S : y <= x

\* Every operation of the arithmetic below is applied through Call, one
\* recursive operator: Call("F64Mul", <<f, n>>) is F64Mul(f, n). TLC then
\* instruments the arithmetic once for each place that uses it, not once for
\* each nested application.
RECURSIVE Call(_, _)

BigNorm(a) ==
    LET nz == {i \in 1..Len(a) : a[i] # 0}
    IN  IF nz = {} THEN <<>> ELSE SubSeq(a, 1, MaxOf(nz))

BigFromNat(n) == Call("BigNorm", << << n % Base, (n \div Base) % Base, n \div (Base * Base) >> >>)

Limb(a, i) == IF i >= 1 /\ i <= Len(a) THEN a[i] ELSE 0

\* The value of a number below 2^31.
BigToNat(a) == Limb(a, 1) + Base * Limb(a, 2) + Base * Base * Limb(a, 3)

\* The bit of weight 2^j.
BigBit(a, j) == (Limb(a, j \div 15 + 1) \div Pow2(j % 15)) % 2

\* The number of significant bits.
BigLen(a) ==
    IF a = <<>> THEN 0
    ELSE 15 * (Len(a) - 1)
         + (CHOOSE k \in 1..15 : Pow2(k - 1) <= a[Len(a)] /\ a[Len(a)] < Pow2(k))

\* floor(a / 2^k)
BigShr(a, k) ==
    LET q == k \div 15
        r == k % 15
    IN  IF Len(a) <= q THEN <<>>
        ELSE Call("BigNorm",
                  << [i \in 1..(Len(a) - q) |->
                         (Limb(a, i + q) \div Pow2(r))
                             + (Limb(a, i + q + 1) % Pow2(r)) * Pow2(15 - r)] >>)

\* a * 2^k
BigShl(a, k) ==
    LET q == k \div 15
        r == k % 15
    IN  IF a = <<>> THEN <<>>
        ELSE Call("BigNorm",
                  << [i \in 1..(Len(a) + q + 1) |->
                         (Limb(a, i - q) % Pow2(15 - r)) * Pow2(r)
                             + (Limb(a, i - q - 1) \div Pow2(15 - r))] >>)

\* a mod 2^k
BigLow(a, k) ==
    LET q == k \div 15
        r == k % 15
    IN  Call("BigNorm", <<[i \in 1..(q + 1) |-> IF i <= q THEN Limb(a, i) ELSE Limb(a, i) % Pow2(r)]>>)

\* -1, 0 or 1 as a is below, equal to or above b.
BigCmp(a, b) ==
    IF Len(a) # Len(b) THEN (IF Len(a) < Len(b) THEN -1 ELSE 1)
    ELSE IF a = b THEN 0
    ELSE LET i == MaxOf({j \in 1..Len(a) : a[j] # b[j]})
         IN  IF a[i] < b[i] THEN -1 ELSE 1

RECURSIVE BigMulFrom(_, _, _, _)
BigMulFrom(a, k, i, carry) ==
    IF i > Len(a) THEN (IF carry = 0 THEN <<>> ELSE <<carry>>)
    ELSE LET t == a[i] * k + carry
         IN  <<t % Base>> \o BigMulFrom(a, k, i + 1, t \div Base)

\* a * k for k below 2^15
BigMulSmall(a, k) == Call("BigNorm", <<Call("BigMulFrom", <<a, k, 1, 0>>)>>)

RECURSIVE BigAddFrom(_, _, _, _)
BigAddFrom(a, b, i, carry) ==
    IF i > Len(a) /\ i > Len(b) THEN (IF carry = 0 THEN <<>> ELSE <<carry>>)
    ELSE LET t == Limb(a, i) + Limb(b, i) + carry
         IN  <<t % Base>> \o BigAddFrom(a, b, i + 1, t \div Base)

BigAdd(a, b) == Call("BigNorm", <<Call("BigAddFrom", <<a, b, 1, 0>>)>>)

RECURSIVE BigSubFrom(_, _, _, _)
BigSubFrom(a, b, i, borrow) ==
    IF i > Len(a) THEN <<>>
    ELSE LET t == a[i] - Limb(b, i) - borrow
         IN  IF t < 0 THEN <<t + Base>> \o BigSubFrom(a, b, i + 1, 1)
             ELSE <<t>> \o BigSubFrom(a, b, i + 1, 0)

\* a - b for a >= b
BigSub(a, b) == Call("BigNorm", <<Call("BigSubFrom", <<a, b, 1, 0>>)>>)

RECURSIVE BigMulLimbs(_, _, _)
BigMulLimbs(a, b, i) ==
    IF i > Len(b) THEN <<>>
    ELSE Call("BigAdd", <<Call("BigShl", <<Call("BigMulSmall", <<a, b[i]>>), 15 * (i - 1)>>),
                          BigMulLimbs(a, b, i + 1)>>)

\* a * n for a natural number n below 2^31
BigMulNat(a, n) == Call("BigMulLimbs", <<a, Call("BigFromNat", <<n>>), 1>>)

\* Long division of a by d (below 2^16) from limb i down to limb 1, rem being
\* the remainder of the limbs above: the quotient's limbs i..1 and the
\* remainder.
RECURSIVE BigDivFrom(_, _, _, _)
BigDivFrom(a, d, i, rem) ==
    IF i = 0 THEN [q |-> <<>>, r |-> rem]
    ELSE LET t    == rem * Base + a[i]
             rest == BigDivFrom(a, d, i - 1, t % d)
         IN  [q |-> Append(rest.q, t \div d), r |-> rest.r]

BigDivSmall(a, d) ==
    LET x == Call("BigDivFrom", <<a, d, Len(a), 0>>) IN [q |-> Call("BigNorm", <<x.q>>), r |-> x.r]

\* The decimal digits of n, at least width of them.
RECURSIVE PadDigits(_, _)
PadDigits(n, width) ==
    IF n < 10 /\ width <= 1 THEN <<DigitChar[n + 1]>>
    ELSE PadDigits(n \div 10, width - 1) \o <<DigitChar[(n % 10) + 1]>>

\* The decimal digits of a, at least width of them.
RECURSIVE BigDigits(_, _)
BigDigits(a, width) ==
    IF Len(a) <= 2 THEN Call("PadDigits", <<Call("BigToNat", <<a>>), width>>)
    ELSE LET x == Call("BigDivSmall", <<a, 10000>>)
         IN  BigDigits(x.q, width - 4) \o Call("PadDigits", <<x.r, 4>>)

\* ------------------------------------------------------------- float64
\* A finite float64 of magnitude within the normal range: s * m * 2^e with
\* s in {-1, 0, 1} and m a natural number of exactly 53 bits (<<>> for 0).
F64Zero == [s |-> 0, m |-> <<>>, e |-> 0]

\* The float64 nearest to a * 2^e, or to a value just above it when sticky,
\* ties to even; a has at least 55 bits when sticky.
F64Round(a, e, sticky) ==
    IF a = <<>> THEN F64Zero
    ELSE LET len == Call("BigLen", <<a>>)
         IN  IF len <= 53 THEN [s |-> 1, m |-> Call("BigShl", <<a, 53 - len>>), e |-> e - (53 - len)]
             ELSE LET t    == len - 53
                      kept == Call("BigShr", <<a, t>>)
                      half == Call("BigBit", <<a, t - 1>>) = 1
                      more == sticky \/ Call("BigLow", <<a, t - 1>>) # <<>>
                      up   == half /\ (more \/ Call("BigBit", <<kept, 0>>) = 1)
                      m1   == IF up THEN Call("BigAdd", <<kept, <<1>> >>) ELSE kept
                  IN  IF Call("BigLen", <<m1>>) = 54
                      THEN [s |-> 1, m |-> Call("BigShr", <<m1, 1>>), e |-> e + t + 1]
                      ELSE [s |-> 1, m |-> m1, e |-> e + t]

\* float64(n) for an int n of magnitude below 2^31.
F64FromInt(n) ==
    IF n = 0 THEN F64Zero
    ELSE [Call("F64Round", <<Call("BigFromNat", <<Abs(n)>>), 0, FALSE>>) EXCEPT !.s = IF n < 0 THEN -1 ELSE 1]

\* The quotient's next bits, k at a time: after the steps left, the quotient
\* so far and the remainder.
RECURSIVE F64DivSteps(_, _, _, _, _)
F64DivSteps(quot, rem, d, k, steps) ==
    IF steps = 0 THEN [q |-> quot, r |-> rem]
    ELSE LET t    == rem * Pow2(k)
             next == Call("BigAdd", <<Call("BigShl", <<quot, k>>), Call("BigFromNat", <<t \div d>>)>>)
         IN  IF next = <<>> THEN F64DivSteps(<<>>, t % d, d, k, steps - 1)
             ELSE F64DivSteps(next, t % d, d, k, steps - 1)

\* float64(n) / float64(d) for ints n >= 0 and 0 < d < 2^30.
F64DivNat(n, d) ==
    LET dbits == CHOOSE b \in 1..30 : Pow2(b - 1) <= d /\ d < Pow2(b)
        k     == IF dbits <= 16 THEN 15 ELSE 31 - dbits
        steps == (56 + dbits + k - 1) \div k
        x     == Call("F64DivSteps", <<Call("BigFromNat", <<n \div d>>), n % d, d, k, steps>>)
    IN  Call("F64Round", <<x.q, 0 - k * steps, x.r # 0>>)

\* float64(n) / float64(d) for ints n and d > 0.
F64Div(n, d) ==
    IF n = 0 THEN F64Zero
    ELSE [Call("F64DivNat", <<Abs(n), d>>) EXCEPT !.s = IF n < 0 THEN -1 ELSE 1]

\* f * float64(n) for an int n, 0 <= n < 2^31.
F64Mul(f, n) ==
    IF f.s = 0 \/ n = 0 THEN F64Zero
    ELSE [Call("F64Round", <<Call("BigMulNat", <<f.m, n>>), f.e, FALSE>>) EXCEPT !.s = f.s]

\* f <= g
F64Leq(f, g) ==
    LET mag(x, y) == \* |x| <= |y| for x, y # 0
            x.e < y.e \/ (x.e = y.e /\ BigCmp(x.m, y.m) <= 0)
    IN  IF f.s # g.s THEN f.s < g.s
        ELSE IF f.s = 0 THEN TRUE
        ELSE IF f.s = 1 THEN mag(f, g)
        ELSE mag(g, f)

F64RoundToInt_Truncates(f) ==
    IF f.s = 0 THEN 0
    ELSE IF f.e >= 0 THEN Call("BigToNat", <<Call("BigShl", <<f.m, f.e>>)>>)
    ELSE Call("BigToNat", <<Call("BigShr", <<f.m, 0 - f.e>>)>>)

\* int(math.Round(f)) for f >= 0 below 2^31: the nearest integer, halves away
\* from zero.
F64RoundToInt(f) ==
    IF f.s = 0 THEN 0
    ELSE IF f.e >= 0 THEN Call("BigToNat", <<Call("BigShl", <<f.m, f.e>>)>>)
    ELSE Call("BigToNat", <<Call("BigShr", <<f.m, 0 - f.e>>)>>) + Call("BigBit", <<f.m, 0 - f.e - 1>>)

\* fmt.Sprintf("%.2f", f): sign, integer digits, point, two decimals: the
\* decimal nearest to the float64's exact value, ties to even.
F64Fixed2(f) ==
    IF f.s = 0 THEN <<"0", ".", "0", "0">>
    ELSE LET x    == Call("BigMulSmall", <<f.m, 100>>)
             k    == 0 - f.e
             q    == Call("BigToNat", <<Call("BigShr", <<x, k>>)>>)
             half == Call("BigBit", <<x, k - 1>>) = 1
             more == Call("BigLow", <<x, k - 1>>) # <<>>
             h    == IF half /\ (more \/ q % 2 = 1) THEN q + 1 ELSE q
             sign == IF f.s < 0 THEN <<"-">> ELSE <<>>
         IN  sign \o Call("PadDigits", <<h \div 100, 1>>) \o <<".">> \o Call("PadDigits", <<h % 100, 2>>)

\* The shortest decimal that reads back as the float64: v4 is 4 * m * 10^p,
\* lo4 and hi4 the ends of the interval of reals that round to it on the same
\* scale, sh the bits below the decimal's unit; the digits with p decimals.
RECURSIVE F64ShortestFrom(_, _, _, _, _, _)
F64ShortestFrom(v4, lo4, hi4, sh, closed, p) ==
    LET n1  == Call("BigShr", <<v4, sh>>)
        n2  == Call("BigAdd", <<n1, <<1>> >>)
        c1  == Call("BigShl", <<n1, sh>>)
        c2  == Call("BigShl", <<n2, sh>>)
        in(c) == IF closed THEN Call("BigCmp", <<lo4, c>>) <= 0 /\ Call("BigCmp", <<c, hi4>>) <= 0
                 ELSE Call("BigCmp", <<lo4, c>>) < 0 /\ Call("BigCmp", <<c, hi4>>) < 0
        side  == Call("BigCmp", <<Call("BigSub", <<v4, c1>>), Call("BigSub", <<c2, v4>>)>>)
        near1 == side < 0 \/ (side = 0 /\ Call("BigBit", <<n1, 0>>) = 0)
    IN  IF in(c1) /\ (near1 \/ ~in(c2)) THEN [n |-> n1, p |-> p]
        ELSE IF in(c2) THEN [n |-> n2, p |-> p]
        ELSE IF p >= 20 THEN [n |-> n1, p |-> p]
        ELSE F64ShortestFrom(Call("BigMulSmall", <<v4, 10>>), Call("BigMulSmall", <<lo4, 10>>),
                             Call("BigMulSmall", <<hi4, 10>>), sh, closed, p + 1)

\* strconv.AppendFloat(b, f, 'f', -1, 64), the form encoding/json writes for
\* 1e-6 <= |f| < 1e21; here for |f| < 2^52.
F64Shortest(f) ==
    IF f.s = 0 THEN <<"0">>
    ELSE LET m4   == Call("BigShl", <<f.m, 2>>)
             pow  == f.m = Call("BigShl", << <<1>>, 52>>)
             lo4  == Call("BigSub", <<m4, IF pow THEN <<1>> ELSE <<2>> >>)
             hi4  == Call("BigAdd", <<m4, <<2>> >>)
             x    == Call("F64ShortestFrom", <<m4, lo4, hi4, 2 - f.e, Call("BigBit", <<f.m, 0>>) = 0, 0>>)
             all  == Call("BigDigits", <<x.n, x.p + 1>>)
             sign == IF f.s < 0 THEN <<"-">> ELSE <<>>
         IN  sign \o SubSeq(all, 1, Len(all) - x.p)
                  \o (IF x.p = 0 THEN <<>> ELSE <<".">> \o SubSeq(all, Len(all) - x.p + 1, Len(all)))

\* The arguments up to which the percentages and their texts are computed
\* once and kept: every total and byte or frame count of the bounds above.
MemoMax == MaxTotal + MaxChunks + MaxLines

\* float64(current) / float64(total) * 100 for total > 0: the quotient is
\* rounded to a float64, and so is its product with 100.
F64Percentage(current, total) == Call("F64Mul", <<Call("F64Div", <<current, total>>), 100>>)

PercentageMemo ==
    [current \in (0 - MemoMax)..MemoMax, total \in 1..MemoMax |-> Call("F64Percentage", <<current, total>>)]

\* Update, lines 366-369, for a total above 0.
Percentage(current, total) ==
    IF current \in (0 - MemoMax)..MemoMax /\ total \in 1..MemoMax
    THEN PercentageMemo[current, total]
    ELSE Call("F64Percentage", <<current, total>>)

PctZero    == F64Zero
PctHundred == Call("F64FromInt", <<100>>)
PctLeq(p, q) == Call("F64Leq", <<p, q>>)

PctValues ==
    {PercentageMemo[c, t] : c \in (0 - MemoMax)..MemoMax, t \in 1..MemoMax}
        \cup {PctZero, PctHundred}

FormatMemo == [p \in PctValues |-> Call("F64Fixed2", <<p>>)]

\* fmt.Sprintf("%.2f", p)
FormatPct(p) == IF p \in PctValues THEN FormatMemo[p] ELSE Call("F64Fixed2", <<p>>)

NumberMemo == [p \in PctValues |-> Call("F64Shortest", <<p>>)]

\* json.MarshalIndent(r.Event, "", "  ") as its token sequence; a float64 is
\* written by the characters of the shortest decimal that reads back as it.
JSONNumber(p) == IF p \in PctValues THEN NumberMemo[p] ELSE Call("F64Shortest", <<p>>)

MarshalEvent(ev) ==
    <<"{", "status", ev.Status, "percentage">> \o Call("JSONNumber", <<ev.Percentage>>)
        \o <<"step", ev.Step, "stage", ev.Stage, "timestamp">>
        \o Digits(ev.Timestamp) \o <<"}">>

\* ------------------------------------------------------------- state tuples
cfgVars == <<opts, fsWritable>>
repVars == <<Total, Current, Bar, Event, updatesCh, chClosed, lastUpdate, file, panicked, lastOp,
             calls>>
incVars == <<incPc, incLocal, incBase>>
runVars == <<ctor, options, progRep, downloader, pc, result, inputPath, proc, exitOK, emitted,
             stderrPipe, pipeClosed, rdPc, rdLine, rdBuf, totalFrames, contentLength, dlRead, dlBuf>>
dlVars  == <<destFile, requests, repLog, dlResult, dlCalls, respStatus>>
genVars == <<srcWidth, srcHeight, resolutions, genOptions, ffmpegArgs>>
envVars == <<ctxDone, spawned, outFile>>
shareVars == <<runPc, runDims, runTiers, sharedPrev, lastWriter, runResult>>
vars    == <<now, cfgVars, repVars, lastRecv, incVars, runVars, dlVars, genVars, envVars,
             shareVars>>

NoFile      == <<>>
InitialData == <<"i", "n", "i", "t">>
NoEvent     == [Status |-> "none", Percentage |-> PctZero, Step |-> "", Stage |-> "", Timestamp |-> 0]
NoOp        == [op |-> "none", started |-> FALSE]
NoResult    == [kind |-> "none", type |-> "", code |-> 0, structured |-> FALSE, path |-> ""]
NoDetails   == [text |-> "", status |-> 0]
NoDlResult  == [kind |-> "none", type |-> "", code |-> 0, details |-> NoDetails, path |-> ""]
AbsentFile  == [state |-> "absent", data |-> <<>>]
OldFile     == [state |-> "old", data |-> <<0>>]
NoOptions   == [InputPath |-> "", IsRemoteInput |-> FALSE, AllowOverwrite |-> FALSE,
                OutputPath |-> "", OutputType |-> "", HLSResolutions |-> <<>>,
                UseAutoResolutions |-> FALSE, StreamFromURL |-> FALSE]

\* ------------------------------------------------- progress.DefaultReporter

\* NewReporter(opts...)
NewReporter(throttle, path, format) ==
    /\ opts = [throttle |-> throttle, progressFilePath |-> path, progressFileFormat |-> format]
    /\ Total = 0
    /\ Current = 0
    /\ Bar = "nil"
    /\ Event = [Status |-> "initialized", Percentage |-> PctZero, Step |-> "", Stage |-> "",
                Timestamp |-> now]
    /\ updatesCh = <<>>
    /\ chClosed = FALSE
    /\ lastUpdate = now
    /\ panicked = FALSE
    /\ lastOp = NoOp

\* sendUpdateInternal(force) for the snapshot ev: the channel, lastUpdate and
\* whether the send panicked (send on a closed channel).
sendUpdateInternal(force, ev) ==
    IF ~force /\ now - lastUpdate < opts.throttle
    THEN [ch |-> updatesCh, lastUpdate |-> lastUpdate, panic |-> FALSE]
    ELSE IF chClosed
    THEN [ch |-> updatesCh, lastUpdate |-> now, panic |-> TRUE]
    ELSE IF Len(updatesCh) < ChanCap
    THEN [ch |-> Append(updatesCh, ev), lastUpdate |-> now, panic |-> FALSE]
    ELSE [ch |-> updatesCh, lastUpdate |-> now, panic |-> FALSE]

\* writeProgressFileInternal() for the snapshot ev: the file's new content.
writeProgressFileInternal(ev) ==
    IF opts.progressFilePath = "" THEN file
    ELSE LET content == IF opts.progressFileFormat = "json"
                        THEN MarshalEvent(ev)
                        ELSE Call("FormatPct", <<ev.Percentage>>)
         IN  IF fsWritable THEN content ELSE file

\* (r *DefaultReporter) Start(total)
ReporterStart(total) ==
    LET ev == [Event EXCEPT !.Status = "started", !.Percentage = PctZero, !.Timestamp = now]
        s  == sendUpdateInternal(TRUE, ev)
    IN  /\ Total' = total
        /\ Current' = 0
        /\ Event' = ev
        /\ Bar' = "set"
        /\ updatesCh' = s.ch
        /\ lastUpdate' = s.lastUpdate
        /\ panicked' = s.panic
        /\ file' = IF s.panic THEN file ELSE writeProgressFileInternal(ev)
        /\ chClosed' = chClosed
        /\ lastOp' = [op |-> "Start", started |-> Bar = "set"]
        /\ calls' = calls + 1

\* (r *DefaultReporter) Update(current, step, stage)
ReporterUpdate(current, step, stage) ==
    /\ lastOp' = [op |-> "Update", started |-> Bar = "set"]
    /\ calls' = calls + 1
    /\ IF Bar = "nil"
       THEN UNCHANGED <<Total, Current, Bar, Event, updatesCh, chClosed, lastUpdate, file, panicked>>
       ELSE LET c   == IF current > Total THEN Total ELSE current
                pct == IF Total > 0 THEN Call("Percentage", <<c, Total>>) ELSE PctZero
                ev  == [Status |-> "processing", Percentage |-> pct, Step |-> step,
                        Stage |-> stage, Timestamp |-> now]
                s   == sendUpdateInternal(FALSE, ev)
            IN  /\ Current' = c
                /\ Event' = ev
                /\ updatesCh' = s.ch
                /\ lastUpdate' = s.lastUpdate
                /\ panicked' = s.panic
                /\ file' = IF s.panic THEN file ELSE writeProgressFileInternal(ev)
                /\ UNCHANGED <<Total, Bar, chClosed>>

\* Complete that marks the reporter completed without moving Current to Total.
ReporterComplete_KeepsCurrent ==
    /\ lastOp' = [op |-> "Complete", started |-> Bar = "set"]
    /\ calls' = calls + 1
    /\ IF Bar = "nil"
       THEN UNCHANGED <<Total, Current, Bar, Event, updatesCh, chClosed, lastUpdate, file, panicked>>
       ELSE LET ev == [Event EXCEPT !.Status = "completed", !.Percentage = PctHundred,
                                    !.Timestamp = now]
                s  == sendUpdateInternal(TRUE, ev)
            IN  /\ Current' = Current
                /\ Event' = ev
                /\ updatesCh' = s.ch
                /\ lastUpdate' = s.lastUpdate
                /\ panicked' = s.panic
                /\ file' = IF s.panic THEN file ELSE writeProgressFileInternal(ev)
                /\ Bar' = IF s.panic THEN Bar ELSE "nil"
                /\ chClosed' = IF s.panic THEN chClosed ELSE TRUE
                /\ UNCHANGED Total

\* (r *DefaultReporter) Complete()
ReporterComplete ==
    /\ lastOp' = [op |-> "Complete", started |-> Bar = "set"]
    /\ calls' = calls + 1
    /\ IF Bar = "nil"
       THEN UNCHANGED <<Total, Current, Bar, Event, updatesCh, chClosed, lastUpdate, file, panicked>>
       ELSE LET ev == [Event EXCEPT !.Status = "completed", !.Percentage = PctHundred,
                                    !.Timestamp = now]
                s  == sendUpdateInternal(TRUE, ev)
            IN  /\ Current' = Total
                /\ Event' = ev
                /\ updatesCh' = s.ch
                /\ lastUpdate' = s.lastUpdate
                /\ panicked' = s.panic
                /\ file' = IF s.panic THEN file ELSE writeProgressFileInternal(ev)
                /\ Bar' = IF s.panic THEN Bar ELSE "nil"
                /\ chClosed' = IF s.panic THEN chClosed ELSE TRUE
                /\ UNCHANGED Total

\* ------------------------------------------------------------ environment
\* The clock advances.
Tick ==
    /\ ~panicked
    /\ now < MaxTime
    /\ now' = now + 1
    /\ UNCHANGED <<cfgVars, repVars, lastRecv, incVars, runVars, dlVars, genVars,
                   envVars, shareVars>>

\* A subscriber takes the next snapshot from Updates().
Recv ==
    /\ ~panicked
    /\ updatesCh # <<>>
    /\ lastRecv' = Head(updatesCh)
    /\ updatesCh' = Tail(updatesCh)
    /\ UNCHANGED <<now, cfgVars, Total, Current, Bar, Event, chClosed, lastUpdate, file,
                   panicked, lastOp, calls, incVars, runVars, dlVars, genVars,
                   envVars, shareVars>>

\* ------------------------------------------------- the reporter's API driver
StartTotals == 0..MaxTotal
UpdateArgs  == (-1)..(MaxTotal + 1)

Start(total) ==
    /\ ~panicked
    /\ calls < MaxCalls
    /\ ReporterStart(total)
    /\ UNCHANGED <<now, cfgVars, lastRecv, incVars, runVars, dlVars, genVars,
                   envVars, shareVars>>

Update(current) ==
    /\ ~panicked
    /\ calls < MaxCalls
    /\ ReporterUpdate(current, "step", "stage")
    /\ UNCHANGED <<now, cfgVars, lastRecv, incVars, runVars, dlVars, genVars,
                   envVars, shareVars>>

Complete ==
    /\ ~panicked
    /\ calls < MaxCalls
    /\ ReporterComplete
    /\ UNCHANGED <<now, cfgVars, lastRecv, incVars, runVars, dlVars, genVars,
                   envVars, shareVars>>

InitCommon ==
    /\ now = 0
    /\ lastRecv = NoEvent
    /\ calls = 0
    /\ incPc = [i \in 1..NumInc |-> "idle"]
    /\ incLocal = [i \in 1..NumInc |-> 0]
    /\ incBase = 0

\* hls.Options with every field at Go's zero value.
NoHlsOptions ==
    [InputFile |-> "", OutputDir |-> "", SegmentDuration |-> 0, PlaylistType |-> "",
     Resolutions |-> <<>>, MasterPlaylist |-> "", SegmentFormat |-> "",
     VariantStreamMap |-> "", FFmpegExtraParams |-> <<>>]

\* No hls.Generator whose arguments are built.
NoGenerator ==
    /\ genOptions = NoHlsOptions
    /\ ffmpegArgs = <<>>

\* GenerateAutoResolutions has not been called.
NoLadder ==
    /\ srcWidth = 0
    /\ srcHeight = 0
    /\ resolutions = <<>>
    /\ NoGenerator

\* No context, no subprocess and no output file.
NoEnv ==
    /\ ctxDone = FALSE
    /\ spawned = <<>>
    /\ outFile = "absent"

\* No second Transcode call on the Transcoder.
NoShare ==
    /\ runPc = <<"idle", "idle">>
    /\ runDims = << <<0, 0>>, <<0, 0>> >>
    /\ runTiers = << <<>>, <<>> >>
    /\ sharedPrev = <<>>
    /\ lastWriter = 0
    /\ runResult = <<NoResult, NoResult>>

\* No Transcoder: the reporter is used on its own.
NoRun ==
    /\ ctor = "none"
    /\ options = NoOptions
    /\ progRep = "reporter"
    /\ downloader = "nil"
    /\ pc = "idle"
    /\ result = NoResult
    /\ inputPath = ""
    /\ proc = "none"
    /\ exitOK = FALSE
    /\ emitted = 0
    /\ stderrPipe = <<>>
    /\ pipeClosed = FALSE
    /\ rdPc = "none"
    /\ rdLine = 0
    /\ rdBuf = <<>>
    /\ totalFrames = 0
    /\ contentLength = 0
    /\ dlRead = 0
    /\ dlBuf = 0
    /\ destFile = AbsentFile
    /\ requests = 0
    /\ repLog = <<>>
    /\ dlResult = NoDlResult
    /\ dlCalls = 0
    /\ respStatus = 0

Init ==
    /\ InitCommon
    /\ NoLadder
    /\ NoEnv
    /\ NoShare
    /\ NoRun
    /\ fsWritable \in BOOLEAN
    /\ \E th \in 0..MaxThrottle, path \in {"", "progress.txt"}, fmt \in {"text", "json"} :
          /\ (path = "" => fmt = "text" /\ fsWritable)
          /\ NewReporter(th, path, fmt)
    /\ file \in IF opts.progressFilePath = "" THEN {NoFile} ELSE {NoFile, InitialData}

Next ==
    \/ \E t \in StartTotals : Start(t)
    \/ \E c \in UpdateArgs : Update(c)
    \/ Complete
    \/ Recv
    \/ Tick

Spec == Init /\ [][Next]_vars

\* ------------------------------------- SpecBuf: filling the update channel
\* One caller makes up to MaxBufCalls calls in any order; Start has no
\* condition on the reporter's state.
BufStart ==
    /\ ~panicked
    /\ calls < MaxBufCalls
    /\ ReporterStart(MaxTotal)
    /\ UNCHANGED <<now, cfgVars, lastRecv, incVars, runVars, dlVars, genVars,
                   envVars, shareVars>>

BufUpdate ==
    /\ ~panicked
    /\ calls < MaxBufCalls
    /\ ReporterUpdate(1, "step", "stage")
    /\ UNCHANGED <<now, cfgVars, lastRecv, incVars, runVars, dlVars, genVars,
                   envVars, shareVars>>

\* (r *DefaultReporter) Increment(step, stage), lines 384-386, made by the one
\* caller: r.Update(r.Current+1, step, stage).
BufIncrement ==
    /\ ~panicked
    /\ calls < MaxBufCalls
    /\ ReporterUpdate(Current + 1, "step", "stage")
    /\ UNCHANGED <<now, cfgVars, lastRecv, incVars, runVars, dlVars, genVars,
                   envVars, shareVars>>

BufComplete ==
    /\ ~panicked
    /\ calls < MaxBufCalls
    /\ ReporterComplete
    /\ UNCHANGED <<now, cfgVars, lastRecv, incVars, runVars, dlVars, genVars,
                   envVars, shareVars>>

InitBuf ==
    /\ InitCommon
    /\ NoLadder
    /\ NoEnv
    /\ NoShare
    /\ NoRun
    /\ fsWritable = TRUE
    /\ \E th \in 0..MaxThrottle : NewReporter(th, "", "text")
    /\ file = NoFile

NextBuf ==
    \/ BufStart
    \/ BufUpdate
    \/ BufIncrement
    \/ BufComplete
    \/ Recv
    \/ Tick

SpecBuf == InitBuf /\ [][NextBuf]_vars

\* ------------------------------------ SpecInc: concurrent Increment calls
\* The caller starts the reporter.
IncStart(total) ==
    /\ ~panicked
    /\ Bar = "nil"
    /\ \A i \in 1..NumInc : incPc[i] = "idle"
    /\ ReporterStart(total)
    /\ UNCHANGED <<now, cfgVars, lastRecv, incVars, runVars, dlVars, genVars,
                   envVars, shareVars>>

\* The caller brings the started reporter to some current value.
IncSetup(current) ==
    /\ ~panicked
    /\ Bar = "set"
    /\ lastOp.op = "Start"
    /\ \A i \in 1..NumInc : incPc[i] = "idle"
    /\ ReporterUpdate(current, "step", "stage")
    /\ UNCHANGED <<now, cfgVars, lastRecv, incVars, runVars, dlVars, genVars,
                   envVars, shareVars>>

\* The caller launches NumInc goroutines, each calling Increment once.
IncLaunch ==
    /\ ~panicked
    /\ Bar = "set"
    /\ \A i \in 1..NumInc : incPc[i] = "idle"
    /\ Total >= Current + NumInc
    /\ incBase' = Current
    /\ incPc' = [i \in 1..NumInc |-> "read"]
    /\ UNCHANGED <<now, cfgVars, repVars, lastRecv, incLocal, runVars, dlVars, genVars,
                   envVars, shareVars>>

\* (r *DefaultReporter) Increment: the argument r.Current+1 is evaluated
\* before Update takes the mutex.
IncrementRead(i) ==
    /\ incPc[i] = "read"
    /\ incLocal' = [incLocal EXCEPT ![i] = Current]
    /\ incPc' = [incPc EXCEPT ![i] = "update"]
    /\ UNCHANGED <<now, cfgVars, repVars, lastRecv, incBase, runVars, dlVars, genVars,
                   envVars, shareVars>>

\* (r *DefaultReporter) Increment: the call r.Update(r.Current+1, step, stage).
IncrementUpdate(i) ==
    /\ incPc[i] = "update"
    /\ ReporterUpdate(incLocal[i] + 1, "increment-step", "increment-stage")
    /\ incPc' = [incPc EXCEPT ![i] = "done"]
    /\ UNCHANGED <<now, cfgVars, lastRecv, incLocal, incBase, runVars, dlVars, genVars,
                   envVars, shareVars>>

IncTotals == NumInc..(NumInc + MaxTotal)

InitInc ==
    /\ InitCommon
    /\ NoLadder
    /\ NoEnv
    /\ NoShare
    /\ NoRun
    /\ fsWritable = TRUE
    /\ \E th \in 0..MaxThrottle : NewReporter(th, "", "text")
    /\ file = NoFile

NextInc ==
    \/ \E t \in IncTotals : IncStart(t)
    \/ \E c \in 0..MaxTotal : IncSetup(c)
    \/ IncLaunch
    \/ \E i \in 1..NumInc : IncrementRead(i)
    \/ \E i \in 1..NumInc : IncrementUpdate(i)
    \/ Recv
    \/ Tick

SpecInc == InitInc /\ [][NextInc]_vars

\* -------------------------------------------------------------- pkg/errors
\* errors.New / errors.Wrap: a *StructuredError with a category and a code.
ErrorsNew(type, code) ==
    [kind |-> "err", type |-> type, code |-> code, structured |-> TRUE, path |-> ""]

\* errors.Wrap(err, ...) and errors.New(..., details, ...) where the details
\* matter: the StructuredError also carries the cause's text.
ErrorsWrap(details, type, code) ==
    [kind |-> "err", type |-> type, code |-> code, structured |-> TRUE, path |-> "",
     details |-> details]

\* fmt.Errorf: a plain error value without category or code.
FmtErrorf == [kind |-> "err", type |-> "", code |-> 0, structured |-> FALSE, path |-> ""]

Ok(path) == [kind |-> "ok", type |-> "", code |-> 0, structured |-> FALSE, path |-> path]

\* --------------------------------------- hls.GenerateAutoResolutions(w, h)
Max(a, b) == IF a >= b THEN a ELSE b

DefaultBitrates(name) ==
    CASE name = "2160p" -> [Video |-> "15000k", MaxRate |-> "16050k", BufSize |-> "22500k", Audio |-> "192k"]
      [] name = "1440p" -> [Video |-> "9000k",  MaxRate |-> "9630k",  BufSize |-> "13500k", Audio |-> "192k"]
      [] name = "1080p" -> [Video |-> "5000k",  MaxRate |-> "5350k",  BufSize |-> "7500k",  Audio |-> "192k"]
      [] name = "720p"  -> [Video |-> "2800k",  MaxRate |-> "2996k",  BufSize |-> "4200k",  Audio |-> "128k"]
      [] name = "480p"  -> [Video |-> "1400k",  MaxRate |-> "1498k",  BufSize |-> "2100k",  Audio |-> "96k"]
      [] name = "360p"  -> [Video |-> "800k",   MaxRate |-> "856k",   BufSize |-> "1200k",  Audio |-> "64k"]
      [] name = "240p"  -> [Video |-> "400k",   MaxRate |-> "428k",   BufSize |-> "600k",   Audio |-> "48k"]

\* A VideoResolution value with the bitrates of a preset.
VideoResolution(width, height, bitrates) ==
    [Width |-> width, Height |-> height, VideoBitrate |-> bitrates.Video,
     MaxRate |-> bitrates.MaxRate, BufSize |-> bitrates.BufSize,
     AudioBitrate |-> bitrates.Audio]

standardResolutions_UnorderedSizes ==
    << [name |-> "720p",  size |-> 720,  minDim |-> 720],
       [name |-> "1080p", size |-> 1080, minDim |-> 1080],
       [name |-> "480p",  size |-> 480,  minDim |-> 480],
       [name |-> "360p",  size |-> 360,  minDim |-> 360],
       [name |-> "240p",  size |-> 240,  minDim |-> 240] >>

\* The standard sizes considered after the source tier, largest first
\* (auto_resolutions.go lines 87-97).
standardResolutions ==
    << [name |-> "1080p", size |-> 1080, minDim |-> 1080],
       [name |-> "720p",  size |-> 720,  minDim |-> 720],
       [name |-> "480p",  size |-> 480,  minDim |-> 480],
       [name |-> "360p",  size |-> 360,  minDim |-> 360],
       [name |-> "240p",  size |-> 240,  minDim |-> 240] >>

originalQuality_StrictThreshold(originalMax) ==
    IF originalMax > 2160 THEN "2160p"
    ELSE IF originalMax > 1440 THEN "1440p"
    ELSE IF originalMax > 1080 THEN "1080p"
    ELSE IF originalMax > 720 THEN "720p"
    ELSE IF originalMax > 480 THEN "480p"
    ELSE IF originalMax > 360 THEN "360p"
    ELSE "240p"

originalQuality(originalMax) ==
    IF originalMax >= 2160 THEN "2160p"
    ELSE IF originalMax >= 1440 THEN "1440p"
    ELSE IF originalMax >= 1080 THEN "1080p"
    ELSE IF originalMax >= 720 THEN "720p"
    ELSE IF originalMax >= 480 THEN "480p"
    ELSE IF originalMax >= 360 THEN "360p"
    ELSE "240p"

standardTier_HoldsWidth(res, isVertical, aspectRatio, originalMax) ==
    IF res.size >= originalMax THEN <<>>
    ELSE LET derived == Call("F64RoundToInt", <<Call("F64Mul", <<aspectRatio, res.size>>)>>)
             floored == IF derived < res.minDim \div 3 THEN res.minDim \div 3 ELSE derived
             width   == res.size - (res.size % 2)
             height  == floored - (floored % 2)
         IN  IF width < 160 \/ height < 90 THEN <<>>
             ELSE << VideoResolution(width, height, DefaultBitrates(res.name)) >>

\* One pass of the loop over standardResolutions: the tier for res, or <<>>
\* when it is skipped. The derived dimension is
\* int(math.Round(float64(res.size) * aspectRatio)).
standardTier(res, isVertical, aspectRatio, originalMax) ==
    IF res.size >= originalMax THEN <<>>
    ELSE LET derived == Call("F64RoundToInt", <<Call("F64Mul", <<aspectRatio, res.size>>)>>)
             floored == IF derived < res.minDim \div 3 THEN res.minDim \div 3 ELSE derived
             width0  == IF isVertical THEN floored ELSE res.size
             height0 == IF isVertical THEN res.size ELSE floored
             width   == width0 - (width0 % 2)
             height  == height0 - (height0 % 2)
         IN  IF width < 160 \/ height < 90 THEN <<>>
             ELSE << VideoResolution(width, height, DefaultBitrates(res.name)) >>

\* Lines 42-48: float64(smaller side) / float64(larger side), then
\* math.Round(aspectRatio * 100) / 100.
AspectRatio(originalWidth, originalHeight) ==
    LET quotient == IF originalHeight > originalWidth
                    THEN Call("F64Div", <<originalWidth, originalHeight>>)
                    ELSE Call("F64Div", <<originalHeight, originalWidth>>)
    IN  Call("F64Div", <<Call("F64RoundToInt", <<Call("F64Mul", <<quotient, 100>>)>>), 100>>)

\* The body of GenerateAutoResolutions.
GenerateLadder(originalWidth, originalHeight) ==
    LET isVertical  == originalHeight > originalWidth
        aspectRatio == Call("AspectRatio", <<originalWidth, originalHeight>>)
        originalMax == Max(originalWidth, originalHeight)
        first       == << VideoResolution(originalWidth, originalHeight,
                                          DefaultBitrates(originalQuality(originalMax))) >>
    IN  first \o Call("standardTier", <<standardResolutions[1], isVertical, aspectRatio, originalMax>>)
              \o Call("standardTier", <<standardResolutions[2], isVertical, aspectRatio, originalMax>>)
              \o Call("standardTier", <<standardResolutions[3], isVertical, aspectRatio, originalMax>>)
              \o Call("standardTier", <<standardResolutions[4], isVertical, aspectRatio, originalMax>>)
              \o Call("standardTier", <<standardResolutions[5], isVertical, aspectRatio, originalMax>>)

\* The operation named op applied to the arguments x.
Call(op, x) ==
    CASE op = "BigNorm" -> BigNorm(x[1])
      [] op = "BigFromNat" -> BigFromNat(x[1])
      [] op = "BigToNat" -> BigToNat(x[1])
      [] op = "BigBit" -> BigBit(x[1], x[2])
      [] op = "BigLen" -> BigLen(x[1])
      [] op = "BigShr" -> BigShr(x[1], x[2])
      [] op = "BigShl" -> BigShl(x[1], x[2])
      [] op = "BigLow" -> BigLow(x[1], x[2])
      [] op = "BigCmp" -> BigCmp(x[1], x[2])
      [] op = "BigMulFrom" -> BigMulFrom(x[1], x[2], x[3], x[4])
      [] op = "BigMulSmall" -> BigMulSmall(x[1], x[2])
      [] op = "BigAddFrom" -> BigAddFrom(x[1], x[2], x[3], x[4])
      [] op = "BigAdd" -> BigAdd(x[1], x[2])
      [] op = "BigSubFrom" -> BigSubFrom(x[1], x[2], x[3], x[4])
      [] op = "BigSub" -> BigSub(x[1], x[2])
      [] op = "BigMulLimbs" -> BigMulLimbs(x[1], x[2], x[3])
      [] op = "BigMulNat" -> BigMulNat(x[1], x[2])
      [] op = "BigDivFrom" -> BigDivFrom(x[1], x[2], x[3], x[4])
      [] op = "BigDivSmall" -> BigDivSmall(x[1], x[2])
      [] op = "PadDigits" -> PadDigits(x[1], x[2])
      [] op = "BigDigits" -> BigDigits(x[1], x[2])
      [] op = "F64Round" -> F64Round(x[1], x[2], x[3])
      [] op = "F64FromInt" -> F64FromInt(x[1])
      [] op = "F64DivSteps" -> F64DivSteps(x[1], x[2], x[3], x[4], x[5])
      [] op = "F64DivNat" -> F64DivNat(x[1], x[2])
      [] op = "F64Div" -> F64Div(x[1], x[2])
      [] op = "F64Mul" -> F64Mul(x[1], x[2])
      [] op = "F64Leq" -> F64Leq(x[1], x[2])
      [] op = "F64RoundToInt" -> F64RoundToInt(x[1])
      [] op = "F64Fixed2" -> F64Fixed2(x[1])
      [] op = "F64ShortestFrom" -> F64ShortestFrom(x[1], x[2], x[3], x[4], x[5], x[6])
      [] op = "F64Shortest" -> F64Shortest(x[1])
      [] op = "F64Percentage" -> F64Percentage(x[1], x[2])
      [] op = "Percentage" -> Percentage(x[1], x[2])
      [] op = "PctLeq" -> PctLeq(x[1], x[2])
      [] op = "FormatPct" -> FormatPct(x[1])
      [] op = "JSONNumber" -> JSONNumber(x[1])
      [] op = "AspectRatio" -> AspectRatio(x[1], x[2])
      [] op = "standardTier" -> standardTier(x[1], x[2], x[3], x[4])
      [] op = "GenerateLadder" -> GenerateLadder(x[1], x[2])

\* The source dimensions the resolution probe may report.
ProbeDims == { <<1920, 1080>>, <<1080, 1920>>, <<640, 360>> }

\* The resolutions of the probe's dimensions, computed once and kept.
ProbeLadders == [d \in ProbeDims |-> Call("GenerateLadder", <<d[1], d[2]>>)]

GenerateAutoResolutions(originalWidth, originalHeight) ==
    IF <<originalWidth, originalHeight>> \in ProbeDims
    THEN ProbeLadders[<<originalWidth, originalHeight>>]
    ELSE Call("GenerateLadder", <<originalWidth, originalHeight>>)

\* Widths and heights of the sources handed to GenerateAutoResolutions.
SourceDims ==
    {100, 161, 240, 320, 359, 360, 480, 640, 719, 720, 853, 854, 1079, 1080, 1280, 1440,
     1920, 2160, 3840, 4096}

\* The caller asks for the resolutions of a source of srcWidth x srcHeight.
Generate ==
    /\ resolutions = <<>>
    /\ srcWidth > 0 /\ srcHeight > 0
    /\ resolutions' = GenerateAutoResolutions(srcWidth, srcHeight)
    /\ UNCHANGED <<now, cfgVars, repVars, lastRecv, incVars, runVars, dlVars, srcWidth,
                   srcHeight, genOptions, ffmpegArgs, envVars, shareVars>>

\* ------------------------------------------------- hls.Generator.buildFFmpegArgs
\* The longest Resolutions given to hls.New.
MaxTiers == 2

DefaultResolutions ==
    << VideoResolution(1920, 1080, DefaultBitrates("1080p")),
       VideoResolution(1280, 720, DefaultBitrates("720p")),
       VideoResolution(854, 480, DefaultBitrates("480p")) >>

\* The tiers the callers of hls.New choose their Resolutions from.
TierPool ==
    { VideoResolution(1280, 720, [Video |-> "2M", MaxRate |-> "2.2M", BufSize |-> "4M",
                                  Audio |-> "128k"]),
      VideoResolution(640, 360, [Video |-> "800k", MaxRate |-> "880k", BufSize |-> "1.6M",
                                 Audio |-> "64k"]),
      VideoResolution(1080, 1920, DefaultBitrates("1080p")) }

\* The sequences of at most n tiers of the pool.
TierSeqs(n) == UNION { [1..k -> TierPool] : k \in 0..n }

\* The hls.Options handed to hls.New; "", 0 and <<>> are Go's zero values.
RawHlsOptions ==
    [InputFile : {"input.mp4"},
     OutputDir : {"out", "./output/hls", ""},
     SegmentDuration : {0, 6},
     PlaylistType : {"", "event"},
     Resolutions : TierSeqs(MaxTiers),
     MasterPlaylist : {"", "index.m3u8"},
     SegmentFormat : {"", "fmp4"},
     VariantStreamMap : {"", "v:0,a:0,name:hd"},
     FFmpegExtraParams : {<<>>, <<"-preset", "fast">>}]

\* hls.New: the options with the defaults of the fields left unset.
HlsNew(o) ==
    [o EXCEPT !.SegmentDuration = IF @ = 0 THEN 10 ELSE @,
              !.PlaylistType = IF @ = "" THEN "vod" ELSE @,
              !.MasterPlaylist = IF @ = "" THEN "master.m3u8" ELSE @,
              !.SegmentFormat = IF @ = "" THEN "mpegts" ELSE @,
              !.Resolutions = IF Len(@) = 0 THEN DefaultResolutions ELSE @]

\* fmt.Sprintf("%d", i)
Itoa(i) == ToString(i)

\* strings.TrimSuffix
TrimSuffix(s, suffix) ==
    IF Len(s) >= Len(suffix) /\ SubSeq(s, Len(s) - Len(suffix) + 1, Len(s)) = suffix
    THEN SubSeq(s, 1, Len(s) - Len(suffix))
    ELSE s

\* filepath.Join(dir, name) for the output directories of RawHlsOptions and a
\* name that is already clean: empty elements are dropped, the rest joined
\* with "/" and cleaned (a leading "./" is removed).
FilepathJoin(dir, name) ==
    IF dir = "" THEN name
    ELSE IF dir = "./output/hls" THEN "output/hls/" \o name
    ELSE dir \o "/" \o name

scaleClause_SwapsDimensions(i, res) ==
    "[v" \o Itoa(i) \o "]scale=w=" \o Itoa(res.Height) \o ":h=" \o Itoa(res.Width)
         \o "[v" \o Itoa(i) \o "out]; "

\* buildFilterGraph, line 286: the clause scaling branch i to its tier.
scaleClause(i, res) ==
    "[v" \o Itoa(i) \o "]scale=w=" \o Itoa(res.Width) \o ":h=" \o Itoa(res.Height)
         \o "[v" \o Itoa(i) \o "out]; "

\* buildFilterGraph, lines 279-281: the labels of the first n branches.
RECURSIVE splitLabels(_)
splitLabels(n) ==
    IF n <= 0 THEN "" ELSE splitLabels(n - 1) \o "[v" \o Itoa(n - 1) \o "]"

\* buildFilterGraph, lines 285-287: the clauses of the first n tiers.
RECURSIVE scaleClauses(_, _)
scaleClauses(tiers, n) ==
    IF n = 0 THEN ""
    ELSE scaleClauses(tiers, n - 1) \o scaleClause(n - 1, tiers[n])

\* buildFilterGraph: the split, its labels and the clauses, without the
\* trailing separator.
buildFilterGraph(numStreams, tiers) ==
    TrimSuffix("[0:v]split=" \o Itoa(numStreams) \o splitLabels(numStreams) \o "; "
                   \o scaleClauses(tiers, Len(tiers)),
               "; ")

\* buildFFmpegArgs, lines 218-233: the video and audio options of tier i
\* (counted from 0).
streamArgs(i, res) ==
    << "-map", "[v" \o Itoa(i) \o "out]",
       "-c:v:" \o Itoa(i), "libx264",
       "-b:v:" \o Itoa(i), res.VideoBitrate,
       "-maxrate:v:" \o Itoa(i), res.MaxRate,
       "-bufsize:v:" \o Itoa(i), res.BufSize,
       "-map", "a:0",
       "-c:a:" \o Itoa(i), "aac",
       "-b:a:" \o Itoa(i), res.AudioBitrate,
       "-ac", "2" >>

\* buildFFmpegArgs, lines 216-234: the options of the first n tiers.
RECURSIVE outputArgs(_, _)
outputArgs(tiers, n) ==
    IF n = 0 THEN <<>> ELSE outputArgs(tiers, n - 1) \o streamArgs(n - 1, tiers[n])

\* buildFFmpegArgs, lines 249-256: "v:i,a:i" for the first n tiers, joined by
\* spaces.
RECURSIVE defaultStreamMap(_)
defaultStreamMap(n) ==
    IF n = 0 THEN ""
    ELSE IF n = 1 THEN "v:0,a:0"
    ELSE defaultStreamMap(n - 1) \o " " \o "v:" \o Itoa(n - 1) \o ",a:" \o Itoa(n - 1)

\* buildFFmpegArgs, lines 237-245: the HLS options.
hlsArgs(o) ==
    << "-f", "hls",
       "-hls_time", Itoa(o.SegmentDuration),
       "-hls_playlist_type", o.PlaylistType,
       "-hls_flags", "independent_segments",
       "-hls_segment_type", o.SegmentFormat,
       "-hls_segment_filename", FilepathJoin(o.OutputDir, "stream_%v/data%03d.ts"),
       "-master_pl_name", o.MasterPlaylist >>

\* Generator.buildFFmpegArgs for the generator's options o.
FFmpegArgsOf(o) ==
    LET streamMap == IF o.VariantStreamMap = "" THEN defaultStreamMap(Len(o.Resolutions))
                     ELSE o.VariantStreamMap
    IN  << "-i", o.InputFile, "-filter_complex" >>
            \o << buildFilterGraph(Len(o.Resolutions), o.Resolutions) >>
            \o outputArgs(o.Resolutions, Len(o.Resolutions))
            \o hlsArgs(o)
            \o << "-var_stream_map", streamMap >>
            \o o.FFmpegExtraParams
            \o << FilepathJoin(o.OutputDir, "stream_%v/playlist.m3u8") >>

\* A caller builds the arguments of the generator made by hls.New.
buildFFmpegArgs ==
    /\ ffmpegArgs = <<>>
    /\ genOptions # NoHlsOptions
    /\ ffmpegArgs' = FFmpegArgsOf(genOptions)
    /\ UNCHANGED <<now, cfgVars, repVars, lastRecv, incVars, runVars, dlVars, srcWidth,
                   srcHeight, resolutions, genOptions, envVars, shareVars>>

\* ------------------------------------------------- transcoder.Transcoder
LocalPath == "video.mp4"
RemoteURL == "http://host/video.mp4"
DownloadPath == "downloads/video.mp4"
OutPath == "out"

SecureURL == "https://host/video.mp4"
\* A URL whose text contains the word "dns".
DnsNamedURL == "http://dns.host/video.mp4"
FtpURL == "ftp://host/video.mp4"

\* Local paths a caller may give, with the files of FileSystem behind them.
LocalPaths ==
    {LocalPath, "CLIP.MP4", "missing.mp4", "videos", "secret.mp4", "empty.mp4", "notes.txt",
     "empty.txt", "locked/video.mp4", "busy.mp4"}

\* url.ParseRequestURI(path) and the Scheme of its result; "" when it fails
\* (a relative path is no request URI).
ParseScheme(path) ==
    CASE path \in {RemoteURL, DnsNamedURL} -> "http"
      [] path = SecureURL -> "https"
      [] path = FtpURL -> "ftp"
      [] OTHER -> ""

IsRemote_HttpOnly(path) == ParseScheme(path) = "http"

\* isRemote != nil && (isRemote.Scheme == "http" || isRemote.Scheme == "https")
IsRemote(path) == ParseScheme(path) \in {"http", "https"}

\* What os.Stat and os.Open find at a local path: stat is "ok", "notExist" or
\* "permission" (a parent directory may not be searched); open is "ok",
\* "permission" or "other" (for instance too many open files).
FileSystem(path) ==
    CASE path \in {LocalPath, "CLIP.MP4", "notes.txt"} ->
             [stat |-> "ok", isDir |-> FALSE, open |-> "ok", size |-> 1]
      [] path = "videos" ->
             [stat |-> "ok", isDir |-> TRUE, open |-> "ok", size |-> 1]
      [] path = "secret.mp4" ->
             [stat |-> "ok", isDir |-> FALSE, open |-> "permission", size |-> 1]
      [] path = "busy.mp4" ->
             [stat |-> "ok", isDir |-> FALSE, open |-> "other", size |-> 1]
      [] path \in {"empty.mp4", "empty.txt"} ->
             [stat |-> "ok", isDir |-> FALSE, open |-> "ok", size |-> 0]
      [] path = "locked/video.mp4" ->
             [stat |-> "permission", isDir |-> FALSE, open |-> "permission", size |-> 1]
      [] OTHER ->
             [stat |-> "notExist", isDir |-> FALSE, open |-> "other", size |-> 0]

\* filepath.Ext(path)
Ext(path) ==
    CASE path \in {LocalPath, "missing.mp4", "secret.mp4", "empty.mp4", "busy.mp4",
                   "locked/video.mp4", RemoteURL, SecureURL, FtpURL, DnsNamedURL} -> ".mp4"
      [] path = "CLIP.MP4" -> ".MP4"
      [] path \in {"notes.txt", "empty.txt"} -> ".txt"
      [] OTHER -> ""

\* strings.ToLower on an extension
ToLower(ext) == IF ext = ".MP4" THEN ".mp4" ELSE ext

supportedFormats ==
    {".mp4", ".mov", ".avi", ".mkv", ".webm", ".flv", ".wmv", ".mpeg", ".mpg", ".m4v", ".3gp",
     ".ts", ".mts", ".m2ts"}

\* What an underlying error's text contains, as far as the callers' substring
\* tests can tell.
ErrTexts == {"other", "no space", "timeout", "connection", "codec", "memory", "permission"}

\* error_codes.go: the range of codes reserved for a category; empty for the
\* categories (download, transcoding, hls, validation, system) that have none.
CodeRange(type) ==
    IF type = "network_error" THEN 1000..1099
    ELSE IF type = "disk_space_error" THEN 1100..1199
    ELSE IF type = "file_not_found_error" THEN 1200..1299
    ELSE IF type = "invalid_file_format_error" THEN 1300..1399
    ELSE IF type = "permission_error" THEN 1400..1499
    ELSE IF type = "memory_error" THEN 1500..1599
    ELSE IF type = "codec_not_found_error" THEN 1600..1699
    ELSE IF type = "invalid_output_path_error" THEN 1700..1799
    ELSE IF type = "unsupported_resolution_error" THEN 1800..1899
    ELSE {}

MapDownloadError_KeepsDownloaderCode(text) ==
    IF text = "no space" THEN ErrorsNew("disk_space_error", 6)
    ELSE IF text = "timeout" THEN ErrorsNew("network_error", 3)
    ELSE IF text = "connection" THEN ErrorsNew("network_error", 3)
    ELSE ErrorsNew("download_error", 7)

\* handleInput, lines 453-471: the classification of a Download error by its text.
MapDownloadError(text) ==
    IF text = "no space" THEN ErrorsNew("disk_space_error", 1100)
    ELSE IF text = "timeout" THEN ErrorsNew("network_error", 1001)
    ELSE IF text = "connection" THEN ErrorsNew("network_error", 1000)
    ELSE ErrorsNew("download_error", 7)

\* createHLSStreams, lines 933-961: the classification of a CreateHLS error by its text.
MapHLSError(text) ==
    IF text = "codec" THEN ErrorsNew("codec_not_found_error", 1600)
    ELSE IF text = "memory" THEN ErrorsNew("memory_error", 1500)
    ELSE IF text = "permission" THEN ErrorsNew("permission_error", 1402)
    ELSE IF text = "no space" THEN ErrorsNew("disk_space_error", 1100)
    ELSE ErrorsNew("hls_error", 16)

TierCode_FloorFirst(res) ==
    IF res.Width < 128 \/ res.Height < 96 THEN 1803
    ELSE IF res.Width > 7680 \/ res.Height > 4320 THEN 1802
    ELSE 0

\* createHLSStreams, lines 891-913: the body of the loop over the tiers; the
\* error code the tier is rejected with, 0 when it passes.
TierCode(res) ==
    IF res.Width <= 0 \/ res.Height <= 0 THEN 1801
    ELSE IF res.Width > 7680 \/ res.Height > 4320 THEN 1802
    ELSE IF res.Width < 128 \/ res.Height < 96 THEN 1803
    ELSE 0

ValidateResolutions_AcceptsEveryLadder(ladder) == 0

\* createHLSStreams, lines 890-914: the code of the first offending tier, 0 if none.
RECURSIVE ValidateResolutions(_)
ValidateResolutions(ladder) ==
    IF ladder = <<>> THEN 0
    ELSE IF TierCode(Head(ladder)) # 0 THEN TierCode(Head(ladder))
    ELSE ValidateResolutions(Tail(ladder))

\* The phase of a run at each place of Transcode: construction validates;
\* Transcode opens with the encoder preflight (checkFFmpeg), then resolves the
\* input, probes the source and builds the ladder, and dispatches to
\* transcodeToMP4 or createHLSStreams.
Phase(p) ==
    IF p = "new" THEN "validating"
    ELSE IF p \in {"checkFFmpeg", "checkCodecs"} THEN "preflight"
    ELSE IF p \in {"handleInput", "download", "copy"} THEN "resolving_input"
    ELSE IF p \in {"autoResolutions", "DetectVideoResolution"} THEN "building_ladder"
    ELSE IF p \in {"done", "failed"} THEN p
    ELSE "dispatching"

Fail(err) ==
    /\ result' = err
    /\ pc' = "failed"

\* New / NewWithDeps
NewWithDeps ==
    /\ ~panicked
    /\ pc = "new"
    /\ LET isRemoteInput == IsRemote(options.InputPath)
           dl   == IF ctor = "New"
                   THEN (IF isRemoteInput /\ ~options.StreamFromURL THEN "set" ELSE "nil")
                   ELSE downloader
           opt1 == [options EXCEPT !.OutputType = IF @ = "" THEN "hls" ELSE @]
       IN  IF options.InputPath = ""
           THEN Fail(ErrorsNew("validation_error", 1)) /\ UNCHANGED <<options, downloader>>
           ELSE IF options.OutputPath = ""
           THEN Fail(ErrorsNew("validation_error", 2)) /\ UNCHANGED <<options, downloader>>
           ELSE IF isRemoteInput /\ ~options.StreamFromURL /\ dl = "nil"
           THEN Fail(ErrorsNew("validation_error", 3)) /\ UNCHANGED <<options, downloader>>
           ELSE /\ options' = [opt1 EXCEPT !.IsRemoteInput = isRemoteInput]
                /\ downloader' = dl
                /\ pc' = "checkFFmpeg"
                /\ UNCHANGED result
    /\ UNCHANGED <<now, cfgVars, repVars, lastRecv, incVars, ctor, progRep, inputPath, proc,
                   exitOK, emitted, stderrPipe, pipeClosed, rdPc, rdLine, rdBuf, totalFrames,
                   contentLength, dlRead, dlBuf, dlVars, genVars,
                   envVars, shareVars>>

\* Transcode: t.checkFFmpeg(), the version query (lines 636-648):
\* exec.Command(FFmpegBinary, "-version").CombinedOutput() starts the
\* subprocess and waits for it; a binary that cannot be started fails too.
checkFFmpeg ==
    /\ ~panicked
    /\ pc = "checkFFmpeg"
    /\ \/ /\ Fail(ErrorsNew("codec_not_found_error", 1602))
          /\ spawned' \in {spawned, Append(spawned, "ffmpeg -version")}
       \/ /\ pc' = "checkCodecs"
          /\ spawned' = Append(spawned, "ffmpeg -version")
          /\ UNCHANGED result
    /\ UNCHANGED <<now, cfgVars, repVars, lastRecv, incVars, ctor, options, progRep, downloader,
                   inputPath, proc, exitOK, emitted, stderrPipe, pipeClosed, rdPc, rdLine, rdBuf,
                   totalFrames, contentLength, dlRead, dlBuf, dlVars, genVars, ctxDone, outFile,
                   shareVars>>

\* t.checkFFmpeg(), the codecs query and the two codec checks (lines 651-680):
\* exec.Command(FFmpegBinary, "-codecs").CombinedOutput(), then the output is
\* searched for libx264 and for aac.
checkCodecs ==
    /\ ~panicked
    /\ pc = "checkCodecs"
    /\ \/ /\ Fail(ErrorsNew("system_error", 20))
          /\ spawned' \in {spawned, Append(spawned, "ffmpeg -codecs")}
       \/ /\ spawned' = Append(spawned, "ffmpeg -codecs")
          /\ \E outcome \in {"ok", "noLibx264", "noAAC"} :
                IF outcome = "noLibx264" THEN Fail(ErrorsNew("codec_not_found_error", 1600))
                ELSE IF outcome = "noAAC" THEN Fail(ErrorsNew("codec_not_found_error", 1601))
                ELSE pc' = "handleInput" /\ UNCHANGED result
    /\ UNCHANGED <<now, cfgVars, repVars, lastRecv, incVars, ctor, options, progRep, downloader,
                   inputPath, proc, exitOK, emitted, stderrPipe, pipeClosed, rdPc, rdLine, rdBuf,
                   totalFrames, contentLength, dlRead, dlBuf, dlVars, genVars, ctxDone, outFile,
                   shareVars>>

\* handleInput, direct-stream branch (lines 274-334)
ProbeCauses == {"timeout", "dnsTimeout", "noSuchHost", "refused", "reset", "canceled"}

\* os.IsTimeout(err): the client's timeout, a deadline, or a lookup that timed out.
CauseIsTimeout(cause) == cause \in {"timeout", "dnsTimeout"}

\* The lower-cased text of err.Error(), which is
\* Head "<url>": <cause>, contains "no such host", "lookup", "dns",
\* "could not resolve" or "unknown host" (lines 302-307).
MessageMentionsDNS(url, cause) ==
    cause \in {"dnsTimeout", "noSuchHost"} \/ url = DnsNamedURL

\* handleInput, lines 296-316: the code given to a failed client.Do.
ClassifyProbeError(url, cause) ==
    IF CauseIsTimeout(cause) THEN 1001
    ELSE IF MessageMentionsDNS(url, cause) THEN 1002
    ELSE 1000

ProbeStatuses == {200, 304, 404}

ContentTypes == {"video/mp4", "application/octet-stream", "text/html", ""}

\* handleInput, line 321: resp.StatusCode >= 400
RejectsStatus(status) == status >= 400

\* handleInput, line 328: strings.HasPrefix(contentType, "video/") or
\* strings.Contains(contentType, "application/octet-stream")
AcceptsContentType(contentType) == contentType \in {"video/mp4", "application/octet-stream"}

\* handleInput, direct-stream branch (lines 274-334): the HEAD probe of the URL.
handleInputStream ==
    /\ ~panicked
    /\ pc = "handleInput"
    /\ options.IsRemoteInput /\ options.StreamFromURL
    /\ \/ \* http.NewRequestWithContext fails: client.Do is not reached
          /\ Fail(ErrorsNew("network_error", 1000))
          /\ UNCHANGED <<inputPath, respStatus, requests>>
       \/ \* client.Do (line 295) fails; on a done context with "context
          \* canceled" or "context deadline exceeded"
          \E cause \in ProbeCauses :
             /\ ctxDone => cause \in {"canceled", "timeout"}
             /\ requests' = requests + 1
             /\ Fail(ErrorsWrap(cause, "network_error",
                                ClassifyProbeError(options.InputPath, cause)))
             /\ UNCHANGED <<inputPath, respStatus>>
       \/ \* client.Do (line 295) returns a response
          \E status \in ProbeStatuses, contentType \in ContentTypes :
             /\ ~ctxDone
             /\ requests' = requests + 1
             /\ respStatus' = status
             /\ IF RejectsStatus(status)
                THEN Fail(ErrorsWrap("Server returned status code", "network_error", 1003))
                     /\ UNCHANGED inputPath
                ELSE IF ~AcceptsContentType(contentType)
                THEN Fail(ErrorsWrap(contentType, "invalid_file_format_error", 1300))
                     /\ UNCHANGED inputPath
                ELSE inputPath' = options.InputPath /\ pc' = "autoResolutions"
                     /\ UNCHANGED result
    /\ UNCHANGED <<now, cfgVars, repVars, lastRecv, incVars, ctor, options, progRep, downloader,
                   proc, exitOK, emitted, stderrPipe, pipeClosed, rdPc, rdLine, rdBuf, totalFrames,
                   contentLength, dlRead, dlBuf, destFile, repLog, dlResult, dlCalls, genVars,
                   envVars, shareVars>>

\* handleInput, local branch after a Stat that did not fail (lines 340-382):
\* the error the checks give for the file at path, NoResult when they pass.
LocalInputError(path) ==
    LET f == FileSystem(path)
    IN  IF f.stat = "notExist" THEN ErrorsNew("file_not_found_error", 1200)
        ELSE IF f.isDir THEN ErrorsNew("invalid_file_format_error", 1300)
        ELSE IF f.open = "permission" THEN ErrorsNew("permission_error", 1401)
        ELSE IF f.open # "ok" THEN ErrorsNew("system_error", 4)
        ELSE IF f.size = 0 THEN ErrorsNew("invalid_file_format_error", 1302)
        ELSE IF ToLower(Ext(path)) \notin supportedFormats
        THEN ErrorsNew("invalid_file_format_error", 1301)
        ELSE NoResult

\* handleInput, local branch (lines 337-382). A Stat failure other than
\* "not exist" leaves info nil, and info.IsDir() is a nil dereference.
handleInputLocal ==
    /\ ~panicked
    /\ pc = "handleInput"
    /\ ~options.IsRemoteInput
    /\ IF FileSystem(options.InputPath).stat = "permission"
       THEN panicked' = TRUE /\ UNCHANGED <<pc, result, inputPath>>
       ELSE /\ panicked' = panicked
            /\ IF LocalInputError(options.InputPath) # NoResult
               THEN Fail(LocalInputError(options.InputPath)) /\ UNCHANGED inputPath
               ELSE inputPath' = options.InputPath /\ pc' = "autoResolutions"
                    /\ UNCHANGED result
    /\ UNCHANGED <<now, cfgVars, Total, Current, Bar, Event, updatesCh, chClosed, lastUpdate,
                   file, lastOp, calls, lastRecv, incVars, ctor, options, progRep, downloader,
                   proc, exitOK, emitted, stderrPipe, pipeClosed, rdPc, rdLine, rdBuf, totalFrames,
                   contentLength, dlRead, dlBuf, dlVars, genVars,
                   envVars, shareVars>>

\* handleInput, download branch up to the call of Download (lines 384-449)
handleInputDownload ==
    /\ ~panicked
    /\ pc = "handleInput"
    /\ options.IsRemoteInput /\ ~options.StreamFromURL
    /\ IF downloader = "nil"
       THEN Fail(ErrorsNew("system_error", 10))
       ELSE \E outcome \in {"ok", "diskSpace", "mkdirPermission", "mkdirFails"} :
               IF outcome = "diskSpace" THEN Fail(ErrorsNew("disk_space_error", 1100))
               ELSE IF outcome = "mkdirPermission" THEN Fail(ErrorsNew("permission_error", 1402))
               ELSE IF outcome = "mkdirFails" THEN Fail(ErrorsNew("system_error", 6))
               ELSE pc' = "download" /\ UNCHANGED result
    /\ UNCHANGED <<now, cfgVars, repVars, lastRecv, incVars, ctor, options, progRep, downloader,
                   inputPath, proc, exitOK, emitted, stderrPipe, pipeClosed, rdPc, rdLine, rdBuf,
                   totalFrames, contentLength, dlRead, dlBuf, dlVars, genVars,
                   envVars, shareVars>>

\* ---------------------------------------------------- downloader.Downloader
\* ContentLength values of a response: unknown (-1), or the body's length.
ContentLengths == {-1, MaxChunks}

\* Status codes of a response.
Statuses == {200, 204, 404}

\* What the underlying error of a failed system or network call says.
IOErrTexts == {"other", "no space", "timeout", "connection"}

\* errors.New / errors.Wrap as Download returns them: category, code, details.
DlErr(type, code, details) ==
    [kind |-> "err", type |-> type, code |-> code, details |-> details, path |-> ""]

DlOk(path) ==
    [kind |-> "ok", type |-> "", code |-> 0, details |-> NoDetails, path |-> path]

\* err.Error() of an underlying error.
ErrText(text) == [text |-> text, status |-> 0]

\* fmt.Sprintf("Status: %s", resp.Status)
StatusDetails(status) == [text |-> "Status", status |-> status]

\* Download, line 72: the test that skips the download.
SkipExisting_WhenOverride(exists, allowOverride) == exists /\ allowOverride

SkipExisting(exists, allowOverride) == exists /\ ~allowOverride

\* Download, line 99: the response statuses Download accepts.
StatusOK_AcceptsAll(status) == TRUE

StatusOK_Any2xx(status) == status \in 200..299

StatusOK(status) == status = 200

\* progressReader.Read, line 160: the byte count after a chunk of n bytes.
ReadTotal_ChunkOnly(read, n) == n

ReadTotal(read, n) == read + n

DownloadReturns_RetriesFailure(r) ==
    /\ dlResult' = r
    /\ IF ctor = "Downloader"
       THEN pc' = "returned" /\ UNCHANGED <<result, inputPath>>
       ELSE IF r.kind = "ok"
       THEN inputPath' = r.path /\ pc' = "autoResolutions" /\ UNCHANGED result
       ELSE IF dlCalls <= 1
       THEN pc' = "download" /\ UNCHANGED <<result, inputPath>>
       ELSE Fail(MapDownloadError(r.details.text)) /\ UNCHANGED inputPath

\* Download returns r: to the caller of Download when the Downloader is used
\* on its own, else to handleInput, which returns the path or classifies the
\* error by its text (part_009, lines 452-474).
DownloadReturns(r) ==
    /\ dlResult' = r
    /\ IF ctor = "Downloader"
       THEN pc' = "returned" /\ UNCHANGED <<result, inputPath>>
       ELSE IF r.kind = "ok"
       THEN inputPath' = r.path /\ pc' = "autoResolutions" /\ UNCHANGED result
       ELSE Fail(MapDownloadError(r.details.text)) /\ UNCHANGED inputPath

\* Download from its call up to io.Copy (lines 65-127)
DownloadBegin ==
    /\ ~panicked
    /\ pc = "download"
    /\ dlCalls' = dlCalls + 1
    /\ \/ \* os.MkdirAll fails
          /\ destFile.state = "absent"
          /\ \E text \in IOErrTexts : DownloadReturns(DlErr("system_error", 1, ErrText(text)))
          /\ repLog' = <<>>
          /\ respStatus' = 0
          /\ UNCHANGED <<repVars, contentLength, dlRead, dlBuf, destFile, requests>>
       \/ \* the destination exists and may not be overridden
          /\ SkipExisting(destFile.state # "absent", options.AllowOverwrite)
          /\ DownloadReturns(DlOk(DownloadPath))
          /\ repLog' = <<>>
          /\ respStatus' = 0
          /\ UNCHANGED <<repVars, contentLength, dlRead, dlBuf, destFile, requests>>
       \/ \* http.NewRequestWithContext rejects the URL
          /\ ~SkipExisting(destFile.state # "absent", options.AllowOverwrite)
          /\ ctor = "Downloader"
          /\ DownloadReturns(DlErr("download_error", 2, ErrText("other")))
          /\ repLog' = <<>>
          /\ respStatus' = 0
          /\ UNCHANGED <<repVars, contentLength, dlRead, dlBuf, destFile, requests>>
       \/ \* client.Do fails: no connection, timeout, or the context is cancelled
          /\ ~SkipExisting(destFile.state # "absent", options.AllowOverwrite)
          /\ requests' = requests + 1
          /\ \E text \in IOErrTexts :
                \* a done context: "context canceled" or "context deadline exceeded"
                /\ ctxDone => text \in {"other", "timeout"}
                /\ DownloadReturns(DlErr("download_error", 3, ErrText(text)))
          /\ repLog' = <<>>
          /\ respStatus' = 0
          /\ UNCHANGED <<repVars, contentLength, dlRead, dlBuf, destFile>>
       \/ \* a response arrives
          /\ ~ctxDone
          /\ ~SkipExisting(destFile.state # "absent", options.AllowOverwrite)
          /\ requests' = requests + 1
          /\ \E status \in Statuses :
                /\ respStatus' = status
                /\ IF ~StatusOK(status)
                   THEN /\ DownloadReturns(DlErr("download_error", 4, StatusDetails(status)))
                        /\ repLog' = <<>>
                        /\ UNCHANGED <<repVars, contentLength, dlRead, dlBuf, destFile>>
                   ELSE \/ \* os.Create fails
                           /\ \E text \in IOErrTexts :
                                 DownloadReturns(DlErr("system_error", 5, ErrText(text)))
                           /\ repLog' = <<>>
                           /\ UNCHANGED <<repVars, contentLength, dlRead, dlBuf, destFile>>
                        \/ \* os.Create truncates the destination; Start on the reporter
                           /\ destFile' = [state |-> "partial", data |-> <<>>]
                           /\ \E length \in ContentLengths :
                                 /\ contentLength' = length
                                 /\ IF length > 0 /\ progRep # "nil"
                                    THEN /\ ReporterStart(length)
                                         /\ repLog' = << [op |-> "Start", arg |-> length] >>
                                    ELSE /\ UNCHANGED repVars
                                         /\ repLog' = <<>>
                           /\ dlRead' = 0
                           /\ dlBuf' = 0
                           /\ dlResult' = NoDlResult
                           /\ pc' = "copy"
                           /\ UNCHANGED <<result, inputPath>>
    /\ UNCHANGED <<now, cfgVars, lastRecv, incVars, ctor, options, progRep, downloader, proc,
                   exitOK, emitted, stderrPipe, pipeClosed, rdPc, rdLine, rdBuf, totalFrames, genVars,
                   envVars, shareVars>>

\* io.Copy, the read half of one iteration: a non-empty chunk of n bytes comes
\* through progressReader.Read (lines 157-164), which reports the byte count
\* before io.Copy has written the chunk.
DownloadRead ==
    /\ ~panicked
    /\ pc = "copy"
    /\ ~ctxDone
    /\ dlBuf = 0
    /\ Len(destFile.data) < MaxChunks
    /\ \E n \in 1..(MaxChunks - Len(destFile.data)) :
          /\ dlRead' = ReadTotal(dlRead, n)
          /\ dlBuf' = n
          /\ IF progRep # "nil" /\ contentLength > 0
             THEN /\ ReporterUpdate(ReadTotal(dlRead, n), "downloading", "Downloading file")
                  /\ repLog' = Append(repLog, [op |-> "Update", arg |-> ReadTotal(dlRead, n)])
             ELSE UNCHANGED <<repVars, repLog>>
    /\ UNCHANGED <<now, cfgVars, lastRecv, incVars, ctor, options, progRep, downloader, pc,
                   result, inputPath, proc, exitOK, emitted, stderrPipe, pipeClosed, rdPc,
                   rdLine, rdBuf, totalFrames, contentLength, destFile, requests, dlResult,
                   dlCalls, respStatus, genVars, envVars, shareVars>>

\* io.Copy, the write half of one iteration: file.Write of the chunk read.
DownloadWrite ==
    /\ ~panicked
    /\ pc = "copy"
    /\ dlBuf > 0
    /\ destFile' = [destFile EXCEPT
                       !.data = @ \o [i \in 1..dlBuf |-> Len(destFile.data) + i]]
    /\ dlBuf' = 0
    /\ UNCHANGED <<now, cfgVars, repVars, lastRecv, incVars, ctor, options, progRep, downloader,
                   pc, result, inputPath, proc, exitOK, emitted, stderrPipe, pipeClosed, rdPc,
                   rdLine, rdBuf, totalFrames, contentLength, dlRead, requests, repLog, dlResult,
                   dlCalls, respStatus, genVars, envVars, shareVars>>

\* io.Copy fails in file.Write (lines 129-131): the disk is full or the write
\* breaks after written bytes of the chunk, which the reporter was already
\* told about.
DownloadWriteFails ==
    /\ ~panicked
    /\ pc = "copy"
    /\ dlBuf > 0
    /\ \E written \in 0..(dlBuf - 1) :
          destFile' = [destFile EXCEPT
                          !.data = @ \o [i \in 1..written |-> Len(destFile.data) + i]]
    /\ dlBuf' = 0
    /\ \E text \in {"other", "no space"} :
          DownloadReturns(DlErr("download_error", 6, ErrText(text)))
    /\ UNCHANGED <<now, cfgVars, repVars, lastRecv, incVars, ctor, options, progRep, downloader,
                   proc, exitOK, emitted, stderrPipe, pipeClosed, rdPc, rdLine, rdBuf,
                   totalFrames, contentLength, dlRead, requests, repLog, dlCalls, respStatus,
                   genVars, envVars, shareVars>>

\* io.Copy fails in Read (lines 129-131): the transfer breaks, times out, or
\* the context is cancelled. The destination file stays as far as it was
\* written.
DownloadCopyFails ==
    /\ ~panicked
    /\ pc = "copy"
    /\ dlBuf = 0
    /\ Len(destFile.data) < MaxChunks
    /\ \E text \in IOErrTexts :
          /\ ctxDone => text \in {"other", "timeout"}
          /\ DownloadReturns(DlErr("download_error", 6, ErrText(text)))
    /\ UNCHANGED <<now, cfgVars, repVars, lastRecv, incVars, ctor, options, progRep, downloader,
                   proc, exitOK, emitted, stderrPipe, pipeClosed, rdPc, rdLine, rdBuf, totalFrames,
                   contentLength, dlRead, dlBuf, destFile, requests, repLog, dlCalls, respStatus,
                   genVars, envVars, shareVars>>

\* Download after io.Copy reached the end of the body (lines 133-143)
DownloadFinish ==
    /\ ~panicked
    /\ pc = "copy"
    /\ dlBuf = 0
    /\ Len(destFile.data) = MaxChunks
    /\ IF progRep # "nil"
       THEN /\ ReporterComplete
            /\ repLog' = Append(repLog, [op |-> "Complete", arg |-> 0])
       ELSE UNCHANGED <<repVars, repLog>>
    /\ destFile' = [destFile EXCEPT !.state = "complete"]
    /\ DownloadReturns(DlOk(DownloadPath))
    /\ UNCHANGED <<now, cfgVars, lastRecv, incVars, ctor, options, progRep, downloader, proc,
                   exitOK, emitted, stderrPipe, pipeClosed, rdPc, rdLine, rdBuf, totalFrames,
                   contentLength, dlRead, dlBuf, requests, dlCalls, respStatus, genVars,
                   envVars, shareVars>>

\* The caller of a Downloader calls Download again, same URL and destination.
DownloadAgain ==
    /\ ~panicked
    /\ ctor = "Downloader"
    /\ pc = "returned"
    /\ dlCalls < MaxDownloads
    /\ pc' = "download"
    /\ UNCHANGED <<now, cfgVars, repVars, lastRecv, incVars, ctor, options, progRep, downloader,
                   result, inputPath, proc, exitOK, emitted, stderrPipe, pipeClosed, rdPc,
                   rdLine, rdBuf, totalFrames, contentLength, dlRead, dlBuf, dlVars, genVars,
                   envVars, shareVars>>


\* Transcode, lines 218-226, and DetectVideoResolution up to the start of
\* ffprobe inside cmd.Output() (resolution_detector.go, lines 31-44).
autoResolutions ==
    /\ ~panicked
    /\ pc = "autoResolutions"
    /\ IF options.UseAutoResolutions /\ options.OutputType = "hls"
       THEN \/ \* ffprobe is not started: the context is done, or there is no binary
               /\ Fail(FmtErrorf)
               /\ UNCHANGED spawned
            \/ \* ffprobe starts; cmd.Output() waits for it
               /\ ~ctxDone
               /\ spawned' = Append(spawned, "ffprobe")
               /\ pc' = "DetectVideoResolution"
               /\ UNCHANGED result
       ELSE pc' = "dispatch" /\ UNCHANGED <<result, spawned>>
    /\ UNCHANGED <<now, cfgVars, repVars, lastRecv, incVars, ctor, options, progRep, downloader,
                   inputPath, proc, exitOK, emitted, stderrPipe, pipeClosed, rdPc, rdLine, rdBuf,
                   totalFrames, contentLength, dlRead, dlBuf, dlVars, genVars, ctxDone, outFile,
                   shareVars>>

\* cmd.Output() returns (resolution_detector.go, lines 44-86) and Transcode
\* takes the result (lines 227-247). The context may have been cancelled while
\* ffprobe ran: the process is killed and Output returns an error.
DetectVideoResolution ==
    /\ ~panicked
    /\ pc = "DetectVideoResolution"
    /\ \/ \* ffprobe fails or is killed, or its output has no usable video stream
          /\ Fail(FmtErrorf)
          /\ UNCHANGED options
       \/ \E d \in ProbeDims :
             /\ ~ctxDone
             /\ options' = [options EXCEPT !.HLSResolutions =
                                              GenerateAutoResolutions(d[1], d[2])]
             /\ pc' = "dispatch"
             /\ UNCHANGED result
    /\ UNCHANGED <<now, cfgVars, repVars, lastRecv, incVars, ctor, progRep, downloader,
                   inputPath, proc, exitOK, emitted, stderrPipe, pipeClosed, rdPc, rdLine, rdBuf,
                   totalFrames, contentLength, dlRead, dlBuf, dlVars, genVars, envVars,
                   shareVars>>

\* Transcode, lines 249-265: the switch on the output type.
dispatch ==
    /\ ~panicked
    /\ pc = "dispatch"
    /\ IF options.OutputType = "mp4" THEN pc' = "transcodeToMP4" /\ UNCHANGED result
       ELSE IF options.OutputType = "hls" THEN pc' = "createHLSStreams" /\ UNCHANGED result
       ELSE Fail(FmtErrorf)
    /\ UNCHANGED <<now, cfgVars, repVars, lastRecv, incVars, ctor, options, progRep, downloader,
                   inputPath, proc, exitOK, emitted, stderrPipe, pipeClosed, rdPc, rdLine, rdBuf,
                   totalFrames, contentLength, dlRead, dlBuf, dlVars, genVars,
                   envVars, shareVars>>

RefuseOverwrite_PolicyInverted(exists, allowOverwrite) == exists /\ allowOverwrite

\* transcodeToMP4, line 713: os.Stat(outputPath) succeeds and overwriting is
\* not allowed.
RefuseOverwrite(exists, allowOverwrite) == exists /\ ~allowOverwrite

\* transcodeToMP4 up to "go t.trackProgress(stderr)" (lines 682-763)
transcodeToMP4 ==
    /\ ~panicked
    /\ pc = "transcodeToMP4"
    /\ \E outcome \in {"ok", "mkdirPermission", "mkdirNoSpace", "mkdirFails", "exists",
                       "pipeFails", "noBinary", "startFails"} :
          \* MkdirAll of the directory of an existing output file succeeds.
          /\ outcome \in {"mkdirPermission", "mkdirNoSpace", "mkdirFails"} => outFile = "absent"
          /\ (outcome = "exists") = RefuseOverwrite(outFile # "absent", options.AllowOverwrite)
          \* cmd.Start() on a done context returns the context's error.
          /\ ctxDone => outcome # "ok"
          /\ IF outcome = "ok"
             THEN /\ proc' = "running"
                  /\ spawned' = Append(spawned, "ffmpeg")
                  /\ rdPc' = "scan"
                  /\ pc' = "waitMP4"
                  /\ UNCHANGED result
             ELSE /\ UNCHANGED <<proc, rdPc, spawned>>
                  /\ IF outcome = "mkdirPermission" THEN Fail(ErrorsNew("permission_error", 1402))
                     ELSE IF outcome = "mkdirNoSpace" THEN Fail(ErrorsNew("disk_space_error", 1100))
                     ELSE IF outcome = "mkdirFails" THEN Fail(ErrorsNew("system_error", 10))
                     ELSE IF outcome = "exists"
                     THEN Fail(ErrorsNew("invalid_output_path_error", 1700))
                     ELSE IF outcome = "pipeFails" THEN Fail(ErrorsNew("transcoding_error", 11))
                     ELSE IF outcome = "noBinary" THEN Fail(ErrorsNew("codec_not_found_error", 1602))
                     ELSE Fail(ErrorsNew("transcoding_error", 12))
    /\ UNCHANGED <<now, cfgVars, repVars, lastRecv, incVars, ctor, options, progRep, downloader,
                   inputPath, exitOK, emitted, stderrPipe, pipeClosed, rdLine, rdBuf, totalFrames,
                   contentLength, dlRead, dlBuf, dlVars, genVars, ctxDone, outFile, shareVars>>

\* transcodeToMP4 from cmd.Wait() on (lines 765-809). ExitError.Stderr is
\* empty because stderr is piped, so every failed Wait is TranscodingError 13.
waitMP4 ==
    /\ ~panicked
    /\ pc = "waitMP4"
    /\ proc = "exited"
    /\ pipeClosed' = TRUE
    /\ IF ~exitOK THEN Fail(ErrorsNew("transcoding_error", 13))
       ELSE IF outFile = "absent" THEN Fail(ErrorsNew("transcoding_error", 14))
       ELSE result' = Ok(options.OutputPath) /\ pc' = "done"
    /\ UNCHANGED <<now, cfgVars, repVars, lastRecv, incVars, ctor, options, progRep, downloader,
                   inputPath, proc, exitOK, emitted, stderrPipe, rdPc, rdLine, rdBuf, totalFrames,
                   contentLength, dlRead, dlBuf, dlVars, genVars,
                   envVars, shareVars>>

\* createHLSStreams up to hlsGen.CreateHLS (lines 844-929) and CreateHLS up
\* to ffmpegCmd.Start() (hls.go lines 117-152)
createHLSStreams ==
    /\ ~panicked
    /\ pc = "createHLSStreams"
    /\ \E outcome \in {"ok", "mkdirPermission", "mkdirNoSpace", "mkdirFails", "probePermission",
                       "probeFails", "hlsSetupFails"}, text \in ErrTexts :
          IF outcome = "hlsSetupFails"
          THEN /\ ValidateResolutions(options.HLSResolutions) = 0
               \* the text of the MkdirAll, StderrPipe or Start error, with the
               \* paths it names (hls.go lines 119-152)
               /\ text \in {"other", "codec", "memory", "permission", "no space"}
               /\ Fail(MapHLSError(text))
               /\ UNCHANGED <<proc, spawned>>
          ELSE /\ text = "other"
               /\ IF outcome = "mkdirPermission"
                  THEN Fail(ErrorsNew("permission_error", 1402)) /\ UNCHANGED <<proc, spawned>>
                  ELSE IF outcome = "mkdirNoSpace"
                  THEN Fail(ErrorsNew("disk_space_error", 1100)) /\ UNCHANGED <<proc, spawned>>
                  ELSE IF outcome = "mkdirFails"
                  THEN Fail(ErrorsNew("system_error", 15)) /\ UNCHANGED <<proc, spawned>>
                  ELSE IF outcome = "probePermission"
                  THEN Fail(ErrorsNew("permission_error", 1402)) /\ UNCHANGED <<proc, spawned>>
                  ELSE IF outcome = "probeFails"
                  THEN Fail(ErrorsNew("invalid_output_path_error", 1701))
                       /\ UNCHANGED <<proc, spawned>>
                  ELSE IF ValidateResolutions(options.HLSResolutions) # 0
                  THEN Fail(ErrorsNew("unsupported_resolution_error",
                                      ValidateResolutions(options.HLSResolutions)))
                       /\ UNCHANGED <<proc, spawned>>
                  ELSE \* ffmpegCmd.Start() on a done context returns the context's
                       \* error, which is the "hlsSetupFails" outcome.
                       /\ ~ctxDone
                       /\ proc' = "running"
                       /\ spawned' = Append(spawned, "ffmpeg")
                       /\ pc' = "estimateTotalFrames"
                       /\ UNCHANGED result
    /\ UNCHANGED <<now, cfgVars, repVars, lastRecv, incVars, ctor, options, progRep, downloader,
                   inputPath, exitOK, emitted, stderrPipe, pipeClosed, rdPc, rdLine, rdBuf, totalFrames,
                   contentLength, dlRead, dlBuf, dlVars, genVars, ctxDone, outFile, shareVars>>

\* Generator.CreateHLS called by a user of the hls package, up to
\* ffmpegCmd.Start() (hls.go lines 117-152).
CreateHLS ==
    /\ ~panicked
    /\ ctor = "Generator"
    /\ pc = "createHLS"
    /\ \E outcome \in {"ok", "mkdirFails", "streamDirFails", "pipeFails", "startFails"} :
          /\ ctxDone => outcome # "ok"
          /\ IF outcome = "ok"
             THEN /\ proc' = "running"
                  /\ spawned' = Append(spawned, "ffmpeg")
                  /\ pc' = "estimateTotalFrames"
                  /\ UNCHANGED result
             ELSE /\ UNCHANGED <<proc, spawned>>
                  /\ IF outcome = "mkdirFails" THEN Fail(ErrorsNew("system_error", 1))
                     ELSE IF outcome = "streamDirFails" THEN Fail(ErrorsNew("hls_error", 2))
                     ELSE IF outcome = "pipeFails" THEN Fail(ErrorsNew("hls_error", 3))
                     ELSE Fail(ErrorsNew("hls_error", 4))
    /\ UNCHANGED <<now, cfgVars, repVars, lastRecv, incVars, ctor, options, progRep, downloader,
                   inputPath, exitOK, emitted, stderrPipe, pipeClosed, rdPc, rdLine, rdBuf, totalFrames,
                   contentLength, dlRead, dlBuf, dlVars, genVars, ctxDone, outFile, shareVars>>

\* CreateHLS, lines 154-182: the frame estimate, Start on the sink, and the
\* launch of the stderr reader goroutine.
estimateTotalFrames ==
    /\ ~panicked
    /\ pc = "estimateTotalFrames"
    /\ \E frames \in {0, MaxLines} :
          /\ (progRep = "nil" => frames = 0)
          /\ totalFrames' = frames
          \* exec.Command("ffprobe", ...): not bound to the context. An
          \* estimate of 0 is an ffprobe that is missing or one that fails.
          /\ IF progRep = "nil" THEN spawned' = spawned
             ELSE IF frames > 0 THEN spawned' = Append(spawned, "ffprobe frames")
             ELSE spawned' \in {spawned, Append(spawned, "ffprobe frames")}
          /\ IF progRep # "nil" /\ frames > 0
             THEN ReporterStart(frames)
             ELSE UNCHANGED repVars
    /\ rdPc' = "scan"
    /\ pc' = "waitHLS"
    /\ UNCHANGED <<now, cfgVars, lastRecv, incVars, ctor, options, progRep, downloader, result,
                   inputPath, proc, exitOK, emitted, stderrPipe, pipeClosed, rdLine, rdBuf,
                   contentLength, dlRead, dlBuf, dlVars, genVars, ctxDone, outFile, shareVars>>

\* CreateHLS, lines 184-188: ffmpegCmd.Wait(), whose failure is HLSError 5; for
\* a Transcode run the failure is then classified by createHLSStreams
\* (lines 933-961). The text of a Wait error ("exit status 1", "signal:
\* killed") and the message it is wrapped in hold none of the words the
\* classification looks for.
waitHLS ==
    /\ ~panicked
    /\ pc = "waitHLS"
    /\ proc = "exited"
    /\ pipeClosed' = TRUE
    /\ IF ~exitOK
       THEN IF ctor = "Generator"
            THEN Fail(ErrorsNew("hls_error", 5))
            ELSE Fail(MapHLSError("other"))
       ELSE pc' = "completeHLS" /\ UNCHANGED result
    /\ UNCHANGED <<now, cfgVars, repVars, lastRecv, incVars, ctor, options, progRep, downloader,
                   inputPath, proc, exitOK, emitted, stderrPipe, rdPc, rdLine, rdBuf, totalFrames,
                   contentLength, dlRead, dlBuf, dlVars, genVars,
                   envVars, shareVars>>

MasterPath == "out/master.m3u8"

\* CreateHLS, lines 190-200: Complete on the sink and the return of the master
\* playlist's path; for a Transcode run createHLSStreams then checks that the
\* master playlist exists (lines 964-973).
completeHLS ==
    /\ ~panicked
    /\ pc = "completeHLS"
    /\ IF progRep # "nil" THEN ReporterComplete ELSE UNCHANGED repVars
    /\ IF ctor # "Generator" /\ outFile = "absent"
       THEN Fail(ErrorsNew("hls_error", 17))
       ELSE result' = Ok(MasterPath) /\ pc' = "done"
    /\ UNCHANGED <<now, cfgVars, lastRecv, incVars, ctor, options, progRep, downloader,
                   inputPath, proc, exitOK, emitted, stderrPipe, pipeClosed, rdPc, rdLine, rdBuf,
                   totalFrames, contentLength, dlRead, dlBuf, dlVars, genVars,
                   envVars, shareVars>>

\* The encoder writes one progress line (frame= / time=) to stderr.
ProcEmit ==
    /\ ~panicked
    /\ proc = "running"
    /\ emitted < MaxLines
    /\ emitted' = emitted + 1
    /\ stderrPipe' = Append(stderrPipe, emitted + 1)
    /\ UNCHANGED <<now, cfgVars, repVars, lastRecv, incVars, ctor, options, progRep, downloader,
                   pc, result, inputPath, proc, exitOK, pipeClosed, rdPc, rdLine, rdBuf, totalFrames,
                   contentLength, dlRead, dlBuf, dlVars, genVars,
                   envVars, shareVars>>

\* The encoder exits (by itself, or killed when the context is cancelled).
ProcExit ==
    /\ ~panicked
    /\ proc = "running"
    /\ proc' = "exited"
    /\ exitOK' \in BOOLEAN
    \* Whatever its exit status, the encoder has written the output or not.
    /\ outFile' \in {outFile, "new"}
    /\ UNCHANGED <<now, cfgVars, repVars, lastRecv, incVars, ctor, options, progRep, downloader,
                   pc, result, inputPath, emitted, stderrPipe, pipeClosed, rdPc, rdLine, rdBuf,
                   totalFrames, contentLength, dlRead, dlBuf, dlVars, genVars, ctxDone, spawned,
                   shareVars>>

\* The reader goroutine's scanner.Scan(). A line the bufio.Scanner already
\* holds is returned without a read, also after Wait has closed the pipe.
\* With an empty buffer Scan reads the pipe: the read takes some or all of
\* the lines written so far and Scan returns the first of them; the loop ends
\* at end-of-file, or when Wait has closed the pipe under it.
ReaderScan ==
    /\ ~panicked
    /\ rdPc = "scan"
    /\ IF rdBuf # <<>>
       THEN /\ rdLine' = Head(rdBuf)
            /\ rdBuf' = Tail(rdBuf)
            /\ rdPc' = "update"
            /\ UNCHANGED stderrPipe
       ELSE IF pipeClosed
       THEN rdPc' = "done" /\ UNCHANGED <<rdLine, rdBuf, stderrPipe>>
       ELSE IF stderrPipe # <<>>
       THEN \E k \in 1..Len(stderrPipe) :
               /\ rdLine' = Head(stderrPipe)
               /\ rdBuf' = SubSeq(stderrPipe, 2, k)
               /\ stderrPipe' = SubSeq(stderrPipe, k + 1, Len(stderrPipe))
               /\ rdPc' = "update"
       ELSE proc = "exited" /\ rdPc' = "done" /\ UNCHANGED <<rdLine, rdBuf, stderrPipe>>
    /\ UNCHANGED <<now, cfgVars, repVars, lastRecv, incVars, ctor, options, progRep, downloader,
                   pc, result, inputPath, proc, exitOK, emitted, pipeClosed, totalFrames,
                   contentLength, dlRead, dlBuf, dlVars, genVars,
                   envVars, shareVars>>

\* The reader goroutine's loop body: Update on the sink for a progress line
\* (hls.go lines 171-177; trackProgress, lines 824-839).
ReaderUpdate ==
    /\ ~panicked
    /\ rdPc = "update"
    /\ rdPc' = "scan"
    /\ IF options.OutputType = "hls"
       THEN IF progRep # "nil" /\ totalFrames > 0
            THEN ReporterUpdate(rdLine, "transcoding", "Creating HLS stream")
            ELSE UNCHANGED repVars
       ELSE IF progRep # "nil"
            THEN ReporterUpdate(rdLine, "transcoding", "Processando")
            ELSE UNCHANGED repVars
    /\ UNCHANGED <<now, cfgVars, lastRecv, incVars, ctor, options, progRep, downloader, pc,
                   result, inputPath, proc, exitOK, emitted, stderrPipe, pipeClosed, rdLine, rdBuf,
                   totalFrames, contentLength, dlRead, dlBuf, dlVars, genVars,
                   envVars, shareVars>>

\* Explicit ladders a caller may configure: none, a valid one, and ladders
\* with tiers outside the bounds createHLSStreams accepts.
Ladders ==
    { <<>>,
      << VideoResolution(640, 360, DefaultBitrates("360p")) >>,
      << VideoResolution(0, 360, DefaultBitrates("360p")) >>,
      << VideoResolution(640, 360, DefaultBitrates("360p")),
         VideoResolution(8000, 0, DefaultBitrates("2160p")) >>,
      << VideoResolution(100, 5000, DefaultBitrates("2160p")) >>,
      << VideoResolution(127, 96, DefaultBitrates("240p")),
         VideoResolution(0, 0, DefaultBitrates("240p")) >> }

\* A Transcoder is about to be constructed and Transcode called on it.
InitTranscoder ==
    /\ InitCommon
    /\ NoLadder
    /\ NoShare
    /\ spawned = <<>>
    /\ outFile \in {"absent", "old"}
    /\ fsWritable = TRUE
    /\ NewReporter(0, "", "text")
    /\ file = NoFile
    /\ ctor \in {"New", "NewWithDeps"}
    /\ downloader \in {"nil", "set"}
    /\ (ctor = "New" => downloader = "nil")
    /\ progRep \in {"nil", "reporter"}
    /\ options \in [InputPath : {"", RemoteURL, SecureURL, FtpURL, DnsNamedURL} \cup LocalPaths,
                    IsRemoteInput : {FALSE},
                    AllowOverwrite : BOOLEAN,
                    OutputPath : {"", OutPath},
                    OutputType : {"", "mp4", "hls", "avi"},
                    HLSResolutions : Ladders,
                    UseAutoResolutions : BOOLEAN,
                    StreamFromURL : BOOLEAN]
    /\ (options.InputPath = DnsNamedURL => options.StreamFromURL)
    /\ pc = "new"
    /\ result = NoResult
    /\ inputPath = ""
    /\ proc = "none"
    /\ exitOK = FALSE
    /\ emitted = 0
    /\ stderrPipe = <<>>
    /\ pipeClosed = FALSE
    /\ rdPc = "none"
    /\ rdLine = 0
    /\ rdBuf = <<>>
    /\ totalFrames = 0
    /\ contentLength = 0
    /\ dlRead = 0
    /\ dlBuf = 0
    /\ destFile \in {AbsentFile, OldFile}
    /\ (~IsRemote(options.InputPath) => destFile = AbsentFile)
    /\ requests = 0
    /\ repLog = <<>>
    /\ dlResult = NoDlResult
    /\ dlCalls = 0
    /\ respStatus = 0

\* Transcode is called with a context that is never cancelled.
InitRun ==
    /\ InitTranscoder
    /\ ctxDone = FALSE
    /\ (options.InputPath # LocalPath => outFile = "absent")

NextRun ==
    \/ NewWithDeps
    \/ checkFFmpeg
    \/ checkCodecs
    \/ handleInputStream
    \/ handleInputLocal
    \/ handleInputDownload
    \/ DownloadBegin
    \/ DownloadRead
    \/ DownloadWrite
    \/ DownloadWriteFails
    \/ DownloadCopyFails
    \/ DownloadFinish
    \/ autoResolutions
    \/ DetectVideoResolution
    \/ dispatch
    \/ transcodeToMP4
    \/ waitMP4
    \/ createHLSStreams
    \/ estimateTotalFrames
    \/ waitHLS
    \/ completeHLS
    \/ ProcEmit
    \/ ProcExit
    \/ ReaderScan
    \/ ReaderUpdate
    \/ Recv

SpecRun == InitRun /\ [][NextRun]_vars

\* The caller cancels the context of a running Transcode or CreateHLS call,
\* or its deadline passes.
Cancel ==
    /\ ~panicked
    /\ ~ctxDone
    /\ pc \notin {"idle", "new", "done", "failed"}
    /\ ctxDone' = TRUE
    /\ UNCHANGED <<now, cfgVars, repVars, lastRecv, incVars, runVars, dlVars, genVars, spawned,
                   outFile, shareVars>>

\* Transcode is called with a context that is already done, or that the
\* caller cancels during the run.
InitCancel ==
    /\ InitTranscoder
    /\ ctxDone \in BOOLEAN
    /\ options.InputPath \in {LocalPath, RemoteURL}
    /\ options.OutputPath = OutPath
    /\ options.OutputType \in {"mp4", "hls"}
    /\ Len(options.HLSResolutions) <= 1
    /\ ValidateResolutions(options.HLSResolutions) = 0

NextCancel ==
    \/ NextRun
    \/ Cancel

SpecCancel == InitCancel /\ [][NextCancel]_vars

\* A Generator of the hls package used on its own: CreateHLS is called once.
InitGen ==
    /\ InitCommon
    /\ NoLadder
    /\ NoShare
    /\ fsWritable = TRUE
    /\ NewReporter(0, "", "text")
    /\ file = NoFile
    /\ ctor = "Generator"
    /\ downloader = "nil"
    /\ progRep \in {"nil", "reporter"}
    /\ options \in [InputPath : {LocalPath},
                    IsRemoteInput : {FALSE},
                    AllowOverwrite : {FALSE},
                    OutputPath : {OutPath},
                    OutputType : {"hls"},
                    HLSResolutions : {<<>>, << VideoResolution(640, 360, DefaultBitrates("360p")) >>},
                    UseAutoResolutions : {FALSE},
                    StreamFromURL : {FALSE}]
    /\ pc = "createHLS"
    /\ result = NoResult
    /\ inputPath = LocalPath
    /\ proc = "none"
    /\ exitOK = FALSE
    /\ emitted = 0
    /\ stderrPipe = <<>>
    /\ pipeClosed = FALSE
    /\ rdPc = "none"
    /\ rdLine = 0
    /\ rdBuf = <<>>
    /\ totalFrames = 0
    /\ contentLength = 0
    /\ dlRead = 0
    /\ dlBuf = 0
    /\ destFile = AbsentFile
    /\ requests = 0
    /\ repLog = <<>>
    /\ dlResult = NoDlResult
    /\ dlCalls = 0
    /\ respStatus = 0
    /\ ctxDone \in BOOLEAN
    /\ spawned = <<>>
    /\ outFile \in {"absent", "old"}

NextGen ==
    \/ CreateHLS
    \/ estimateTotalFrames
    \/ waitHLS
    \/ completeHLS
    \/ ProcEmit
    \/ ProcExit
    \/ ReaderScan
    \/ ReaderUpdate
    \/ Recv
    \/ Cancel

SpecGen == InitGen /\ [][NextGen]_vars

\* ------------------------------ two Transcode calls on one Transcoder
Runs == {1, 2}

Other(r) == 3 - r

\* The capacity of the array behind a slice that append has built from nil
\* one element at a time (auto_resolutions.go, lines 51, 77 and 139): a full
\* small array is replaced by one of twice the size, and the elements past
\* the length are zeroed.
RECURSIVE AppendCap(_)
AppendCap(n) ==
    IF n <= 1 THEN n
    ELSE IF n - 1 < AppendCap(n - 1) THEN AppendCap(n - 1)
    ELSE 2 * AppendCap(n - 1)

\* The zero value of VideoResolution.
ZeroTier ==
    [Width |-> 0, Height |-> 0, VideoBitrate |-> "", MaxRate |-> "", BufSize |-> "",
     AudioBitrate |-> ""]

\* What a read past the end of the array can find in the heap: cleared
\* memory, another ladder's element, or words that are no resolution at all.
StrayTiers ==
    {ZeroTier, VideoResolution(640, 360, DefaultBitrates("360p")),
     [ZeroTier EXCEPT !.Width = -1, !.Height = 4321]}

\* A read of the slice that saw one assignment: the elements in order.
Whole(a) == [tiers |-> a, fault |-> FALSE]

\* A read of a slice variable that races with a write: the slice header is
\* three words, so the reader can get the array of a with the length of b.
\* A shorter length gives a prefix of a; a longer one inside the capacity
\* gives a followed by the zeroed spare elements; a length past the capacity
\* reads outside the array, which gives whatever lies there or, at the first
\* such element, a memory fault (tiers then holds the elements read before).
Torn(a, b) ==
    LET cap   == AppendCap(Len(a))
        spare == [i \in 1..((IF Len(b) < cap THEN Len(b) ELSE cap) - Len(a)) |-> ZeroTier]
    IN  IF Len(b) <= Len(a) THEN {Whole(SubSeq(a, 1, Len(b)))}
        ELSE IF Len(b) <= cap THEN {Whole(a \o spare)}
        ELSE {[tiers |-> a \o spare, fault |-> TRUE]}
             \cup {Whole(a \o spare \o stray) : stray \in [1..(Len(b) - cap) -> StrayTiers]}

\* A read of t.options.HLSResolutions in call r. Once the other call has made
\* its assignment the read gets the value of either assignment or a torn mix
\* of the two.
ReadHLSResolutions(r) ==
    IF runPc[Other(r)] = "idle"
    THEN {Whole(options.HLSResolutions)}
    ELSE {Whole(options.HLSResolutions), Whole(sharedPrev)}
         \cup Torn(options.HLSResolutions, sharedPrev)
         \cup Torn(sharedPrev, options.HLSResolutions)

\* Transcode, lines 222-247, in call r: the probe of the input and the
\* assignment t.options.HLSResolutions = autoResolutions. t is the receiver
\* both calls share, and nothing orders the assignment with the other call.
RunAutoResolutions(r) ==
    /\ runPc[r] = "idle"
    /\ options.UseAutoResolutions /\ options.OutputType = "hls"
    /\ \E d \in ProbeDims :
          /\ runDims' = [runDims EXCEPT ![r] = d]
          /\ options' = [options EXCEPT !.HLSResolutions = GenerateAutoResolutions(d[1], d[2])]
    /\ sharedPrev' = options.HLSResolutions
    /\ lastWriter' = r
    /\ runPc' = [runPc EXCEPT ![r] = "createHLSStreams"]
    /\ UNCHANGED <<now, cfgVars, repVars, lastRecv, incVars, ctor, progRep, downloader, pc,
                   result, inputPath, proc, exitOK, emitted, stderrPipe, pipeClosed, rdPc, rdLine, rdBuf,
                   totalFrames, contentLength, dlRead, dlBuf, dlVars, genVars, envVars, runTiers,
                   runResult>>

\* createHLSStreams, lines 890-914, in call r: the loop over
\* t.options.HLSResolutions that checks each tier. The loop returns at the
\* first tier it rejects; a fault outside the array ends the process, and
\* with it both calls.
RunCreateHLSStreams(r) ==
    /\ runPc[r] = "createHLSStreams"
    /\ \E v \in ReadHLSResolutions(r) :
          IF ValidateResolutions(v.tiers) # 0
          THEN /\ runPc' = [runPc EXCEPT ![r] = "failed"]
               /\ runResult' = [runResult EXCEPT ![r] =
                      ErrorsNew("unsupported_resolution_error", ValidateResolutions(v.tiers))]
          ELSE IF v.fault
          THEN runPc' = <<"crashed", "crashed">> /\ UNCHANGED runResult
          ELSE runPc' = [runPc EXCEPT ![r] = "hlsOptions"] /\ UNCHANGED runResult
    /\ UNCHANGED <<now, cfgVars, repVars, lastRecv, incVars, runVars, dlVars, genVars, envVars,
                   runDims, runTiers, sharedPrev, lastWriter>>

\* createHLSStreams, lines 917-929, in call r: hls.Options is built with
\* Resolutions read from t.options.HLSResolutions a second time, and the
\* builder loops over what it was handed (hls.go, CreateHLS); a fault
\* outside the array ends the process.
RunHLSOptions(r) ==
    /\ runPc[r] = "hlsOptions"
    /\ \E v \in ReadHLSResolutions(r) :
          IF v.fault
          THEN runPc' = <<"crashed", "crashed">> /\ UNCHANGED runTiers
          ELSE /\ runTiers' = [runTiers EXCEPT ![r] = v.tiers]
               /\ runPc' = [runPc EXCEPT ![r] = "done"]
    /\ UNCHANGED <<now, cfgVars, repVars, lastRecv, incVars, runVars, dlVars, genVars, envVars,
                   runDims, sharedPrev, lastWriter, runResult>>

\* One Transcoder for a local input with automatic resolutions, on which
\* Transcode is called twice.
InitShared ==
    /\ InitTranscoder
    /\ ctxDone = FALSE
    /\ outFile = "absent"
    /\ ctor = "New"
    /\ progRep = "nil"
    /\ options.InputPath = LocalPath
    /\ options.OutputPath = OutPath
    /\ options.OutputType = "hls"
    /\ options.UseAutoResolutions
    /\ ~options.StreamFromURL
    /\ ValidateResolutions(options.HLSResolutions) = 0

NextShared ==
    \/ \E r \in Runs : RunAutoResolutions(r)
    \/ \E r \in Runs : RunCreateHLSStreams(r)
    \/ \E r \in Runs : RunHLSOptions(r)

SpecShared == InitShared /\ [][NextShared]_vars

\* A Downloader used on its own: Download is called up to MaxDownloads times
\* for the same URL and destination.
InitDl ==
    /\ InitCommon
    /\ NoLadder
    /\ NoEnv
    /\ NoShare
    /\ fsWritable = TRUE
    /\ NewReporter(0, "", "text")
    /\ file = NoFile
    /\ ctor = "Downloader"
    /\ downloader = "set"
    /\ progRep \in {"nil", "reporter"}
    /\ options \in [InputPath : {RemoteURL},
                    IsRemoteInput : {TRUE},
                    AllowOverwrite : BOOLEAN,
                    OutputPath : {DownloadPath},
                    OutputType : {""},
                    HLSResolutions : {<<>>},
                    UseAutoResolutions : {FALSE},
                    StreamFromURL : {FALSE}]
    /\ pc = "download"
    /\ result = NoResult
    /\ inputPath = ""
    /\ proc = "none"
    /\ exitOK = FALSE
    /\ emitted = 0
    /\ stderrPipe = <<>>
    /\ pipeClosed = FALSE
    /\ rdPc = "none"
    /\ rdLine = 0
    /\ rdBuf = <<>>
    /\ totalFrames = 0
    /\ contentLength = 0
    /\ dlRead = 0
    /\ dlBuf = 0
    /\ destFile \in {AbsentFile, OldFile}
    /\ requests = 0
    /\ repLog = <<>>
    /\ dlResult = NoDlResult
    /\ dlCalls = 0
    /\ respStatus = 0

NextDl ==
    \/ DownloadBegin
    \/ DownloadRead
    \/ DownloadWrite
    \/ DownloadWriteFails
    \/ DownloadCopyFails
    \/ DownloadFinish
    \/ DownloadAgain
    \/ Recv

SpecDl == InitDl /\ [][NextDl]_vars

\* GenerateAutoResolutions called on its own.
InitLadder ==
    /\ InitCommon
    /\ fsWritable = TRUE
    /\ NewReporter(0, "", "text")
    /\ file = NoFile
    /\ NoRun
    /\ srcWidth \in SourceDims
    /\ srcHeight \in SourceDims
    /\ resolutions = <<>>
    /\ NoGenerator
    /\ NoEnv
    /\ NoShare

NextLadder == Generate

SpecLadder == InitLadder /\ [][NextLadder]_vars

\* ==================================================================== claims

\* C1: within one Transcode run that shares one DefaultReporter between the
\* download and the processing stage, once the reporter's status is
\* "completed" no later step changes its status or any other field of its
\* snapshot, and no further snapshot is put on the update stream.
C1_CompletedIsTerminal ==
    [][Event.Status = "completed" =>
          /\ Event' = Event
          /\ \/ updatesCh' = updatesCh
             \/ updatesCh # <<>> /\ updatesCh' = Tail(updatesCh)]_vars

\* C2: Complete() on a started reporter always puts a final snapshot with
\* status "completed" and percentage 100 on the update stream, however many
\* snapshots are unread, and then closes it: once the stream is closed its
\* last element (still buffered, or the last one the subscriber took when the
\* buffer is drained) is the "completed" snapshot.
C2_FinalSnapshotDelivered ==
    chClosed =>
        LET last == IF updatesCh # <<>> THEN updatesCh[Len(updatesCh)] ELSE lastRecv
        IN  last.Status = "completed" /\ last.Percentage = PctHundred

\* C3 as claimed: after any Complete() call, also on a reporter that was never
\* started, Percentage = 100, Status = "completed" and Current = Total.
C3_CompleteAlwaysFinalizes ==
    lastOp.op = "Complete" =>
        /\ Event.Percentage = PctHundred
        /\ Event.Status = "completed"
        /\ Current = Total

\* C3 amended: a Complete() call on a started reporter (Bar set) leaves
\* Percentage = 100, Status = "completed" and Current = Total; a Complete()
\* call on a reporter that is not started changes none of its fields.
C3_CompleteFinalizesStarted ==
    [][(calls' # calls /\ lastOp'.op = "Complete") =>
          IF Bar = "set"
          THEN /\ Event'.Percentage = PctHundred
               /\ Event'.Status = "completed"
               /\ Current' = Total'
          ELSE UNCHANGED <<Total, Current, Bar, Event, updatesCh, chClosed, file>>]_vars

C3_Witness ==
    /\ lastOp = [op |-> "Complete", started |-> TRUE]
    /\ Event.Status = "completed"
    /\ Event.Percentage = PctHundred
    /\ Total = MaxTotal
    /\ Current = Total

\* C4: every Transcode run that returns successfully with a DefaultReporter
\* configured leaves the reporter finalized: status "completed", Current =
\* Total, percentage 100 and the update stream closed, for HLS and for MP4
\* output, also when the frame estimate is 0.
C4_SuccessFinalizesReporter ==
    (pc = "done" /\ result.kind = "ok" /\ progRep = "reporter") =>
        /\ Event.Status = "completed"
        /\ Event.Percentage = PctHundred
        /\ Current = Total
        /\ chClosed

\* C5: the stderr reader is joined: once CreateHLS has passed Wait (and is
\* about to call Complete or has returned), and once transcodeToMP4 has
\* returned, the reader goroutine has reached end-of-file and ended, so it can
\* call Update no more.
C5_ReaderJoined ==
    (rdPc # "none" /\ pc \in {"completeHLS", "done", "failed"}) => rdPc = "done"

\* C6: if NumInc goroutines each call Increment once on a started reporter
\* with current = c and total >= c + NumInc, then once all calls have returned
\* current = c + NumInc.
C6_NoLostIncrement ==
    (\A i \in 1..NumInc : incPc[i] = "done") => Current = incBase + NumInc

\* C7: after Update on a started reporter 0 <= Current <= Total, the
\* percentage lies in [0, 100] and the status is "processing".
C7_UpdateClamps ==
    (lastOp = [op |-> "Update", started |-> TRUE]) =>
        /\ 0 <= Current
        /\ Current <= Total
        /\ Call("PctLeq", <<PctZero, Event.Percentage>>)
        /\ Call("PctLeq", <<Event.Percentage, PctHundred>>)
        /\ Event.Status = "processing"

\* C8: two "processing" snapshots a subscriber receives one after the other
\* never decrease in percentage.
C8_SnapshotsMonotonic ==
    [][(lastRecv' # lastRecv /\ lastRecv.Status = "processing"
            /\ lastRecv'.Status = "processing")
          => Call("PctLeq", <<lastRecv.Percentage, lastRecv'.Percentage>>)]_vars

\* C9: with a progress file configured in text mode, after every Start,
\* Update and Complete call the file holds exactly the reporter's current
\* percentage with two decimals; with an empty path no file is written. The
\* statement is taken where every write to the file succeeds, and Update and
\* Complete on a reporter that is not started, which return at once, are
\* granted; a call counts whether it returned or panicked.
C9_FileAfterEveryCall ==
    /\ (opts.progressFilePath # "" /\ opts.progressFileFormat = "text" /\ fsWritable
          /\ lastOp.op \in {"Start", "Update", "Complete"}
          /\ (lastOp.op = "Start" \/ lastOp.started))
        => file = Call("FormatPct", <<Event.Percentage>>)
    /\ opts.progressFilePath = "" => file = NoFile

\* C10: every error that New, NewWithDeps or Transcode (with the Download and
\* CreateHLS calls inside it) returns is a *StructuredError, also when the
\* resolution probe fails and when the output type is unknown.
C10_ErrorsAreStructured ==
    result.kind = "err" => result.structured

\* C11: a fetch that fails or is cancelled during the transfer leaves no
\* destination file that a later fetch takes for a success: whenever Download
\* has returned success the destination is a whole file (one that was there
\* before, or one that was downloaded to the end), never a partly written one.
C11_NoSuccessForPartialFile ==
    (pc = "returned" /\ dlResult.kind = "ok") => destFile.state \in {"old", "complete"}

\* C12: a Download call made when the destination exists and AllowOverride is
\* false returns the destination path with a nil error, sends no HTTP
\* request, leaves the file as it is and makes no call on the progress
\* reporter; so does every further such call.
C12_SkipExisting ==
    [][(pc = "download" /\ dlCalls' = dlCalls + 1
        /\ destFile.state # "absent" /\ ~options.AllowOverwrite) =>
          /\ dlResult' = DlOk(DownloadPath)
          /\ pc' = "returned"
          /\ requests' = requests
          /\ destFile' = destFile
          /\ repLog' = <<>>
          /\ calls' = calls
          /\ Event' = Event
          /\ updatesCh' = updatesCh]_vars

C12_Witness ==
    /\ pc = "returned"
    /\ dlCalls = 2
    /\ requests = 0
    /\ dlResult = DlOk(DownloadPath)
    /\ destFile = OldFile
    /\ progRep = "reporter"

\* C13 as claimed: Download returns the DownloadError (code 4) whose details
\* carry the HTTP status if and only if the response status is not a 2xx one.
C13_ErrorIffNot2xx ==
    respStatus # 0 =>
        ((dlResult = DlErr("download_error", 4, StatusDetails(respStatus)))
            <=> respStatus \notin 200..299)

\* C13 amended: Download returns the DownloadError (code 4) whose details
\* carry the HTTP status if and only if the response status is not 200; with
\* status 200 it goes on to create the destination file and copy the body.
C13_ErrorIffNot200 ==
    /\ respStatus # 0 =>
          ((dlResult = DlErr("download_error", 4, StatusDetails(respStatus)))
              <=> respStatus # 200)
    /\ (respStatus = 200 /\ dlResult.kind = "none" /\ pc = "copy") =>
          destFile.state = "partial"

C13_Witness ==
    /\ pc = "returned"
    /\ respStatus = 204
    /\ dlResult = DlErr("download_error", 4, StatusDetails(204))
    /\ destFile = AbsentFile

\* C14: when a download with a progress reporter has succeeded and the
\* response declared a content length L > 0, the calls it made on the reporter
\* are Start(L), then Updates whose arguments are strictly increasing byte
\* counts ending at the number of bytes written, then Complete, and nothing
\* else; when no content length was declared it made no Start and no Update.
C14_ReporterCallOrder ==
    (pc = "returned" /\ dlResult.kind = "ok" /\ respStatus = 200 /\ progRep # "nil") =>
        LET n == Len(repLog)
        IN  IF contentLength > 0
            THEN /\ n >= 3
                 /\ repLog[1] = [op |-> "Start", arg |-> contentLength]
                 /\ repLog[n] = [op |-> "Complete", arg |-> 0]
                 /\ \A i \in 2..(n - 1) : repLog[i].op = "Update"
                 /\ \A i \in 2..(n - 2) : repLog[i].arg < repLog[i + 1].arg
                 /\ repLog[2].arg > 0
                 /\ repLog[n - 1].arg = Len(destFile.data)
            ELSE repLog = << [op |-> "Complete", arg |-> 0] >>

C14_Witness ==
    /\ pc = "returned"
    /\ dlResult.kind = "ok"
    /\ progRep # "nil"
    /\ contentLength = MaxChunks
    /\ Len(repLog) = MaxChunks + 2
    /\ repLog[2] = [op |-> "Update", arg |-> 1]
    /\ Event.Status = "completed"

\* C15: every tier of a generated resolutions, the first (source) tier included,
\* has even width and even height, and no tier's larger dimension exceeds the
\* source's larger dimension.
C15_EvenAndNoUpscale ==
    \A i \in 1..Len(resolutions) :
        /\ resolutions[i].Width % 2 = 0
        /\ resolutions[i].Height % 2 = 0
        /\ Max(resolutions[i].Width, resolutions[i].Height) <= Max(srcWidth, srcHeight)

\* C16 as claimed: in every tier after the first the derived dimension is the
\* held standard dimension times the exact source ratio (smaller side over
\* larger side), rounded to the nearest integer and then made even by taking
\* off at most 1.
C16_ExactRatio ==
    \A i \in 2..Len(resolutions) :
        LET small   == IF srcHeight > srcWidth THEN srcWidth ELSE srcHeight
            large   == IF srcHeight > srcWidth THEN srcHeight ELSE srcWidth
            held    == IF srcHeight > srcWidth THEN resolutions[i].Height ELSE resolutions[i].Width
            derived == IF srcHeight > srcWidth THEN resolutions[i].Width ELSE resolutions[i].Height
        IN  \E r \in 0..held :
               /\ 2 * Abs(r * large - held * small) <= large
               /\ derived = r - (r % 2)

\* C16 amended: in every tier after the first the derived dimension is the
\* held standard dimension times the source ratio rounded to two decimals,
\* rounded to the nearest integer, raised to a third of the standard dimension
\* when it is below that, and then made even by taking off at most 1.
C16_TwoDecimalRatio ==
    \A i \in 2..Len(resolutions) :
        LET small   == IF srcHeight > srcWidth THEN srcWidth ELSE srcHeight
            large   == IF srcHeight > srcWidth THEN srcHeight ELSE srcWidth
            held    == IF srcHeight > srcWidth THEN resolutions[i].Height ELSE resolutions[i].Width
            derived == IF srcHeight > srcWidth THEN resolutions[i].Width ELSE resolutions[i].Height
        IN  \E k \in 0..100, r \in 0..held :
               /\ 2 * Abs(k * large - 100 * small) <= large
               /\ 2 * Abs(100 * r - held * k) <= 100
               /\ LET f == IF r < held \div 3 THEN held \div 3 ELSE r
                  IN  derived = f - (f % 2)

C16_Witness ==
    /\ srcWidth = 1920
    /\ srcHeight = 1080
    /\ Len(resolutions) = 6
    /\ resolutions[3].Width = 720
    /\ resolutions[3].Height = 402

\* C17: when the source is taller than wide, every tier of the resolutions is at
\* least as tall as wide.
C17_PortraitPreserved ==
    (srcHeight > srcWidth) => \A i \in 1..Len(resolutions) : resolutions[i].Height >= resolutions[i].Width

C17_Witness ==
    /\ srcWidth = 1080
    /\ srcHeight = 1920
    /\ Len(resolutions) = 5
    /\ resolutions[2].Width = 604
    /\ resolutions[2].Height = 1080

\* C18: the first tier of the resolutions is the source, width and height
\* unchanged, with the bitrates of the preset of the largest of the thresholds
\* 2160, 1440, 1080, 720, 480, 360 that is at most the source's larger
\* dimension, and of the 240p preset when that dimension is below 360.
C18_FirstTierPreset ==
    resolutions # <<>> =>
        LET m      == IF srcWidth >= srcHeight THEN srcWidth ELSE srcHeight
            below  == {t \in {2160, 1440, 1080, 720, 480, 360} : t <= m}
            top    == CHOOSE t \in below : \A u \in below : u <= t
            name   == [t \in {2160, 1440, 1080, 720, 480, 360} |->
                          CASE t = 2160 -> "2160p" [] t = 1440 -> "1440p" [] t = 1080 -> "1080p"
                            [] t = 720 -> "720p" [] t = 480 -> "480p" [] t = 360 -> "360p"]
            preset == IF below = {} THEN "240p" ELSE name[top]
        IN  resolutions[1] = VideoResolution(srcWidth, srcHeight, DefaultBitrates(preset))

C18_Witness ==
    /\ srcWidth = 1920
    /\ srcHeight = 1080
    /\ resolutions # <<>>
    /\ resolutions[1].Width = 1920
    /\ resolutions[1].Height = 1080
    /\ resolutions[1].VideoBitrate = "9000k"

\* C19: construction validates the configuration. New and NewWithDeps return
\* ValidationError 1 for an empty input path and ValidationError 2 for an empty
\* output path; NewWithDeps returns ValidationError 3 for an http or https
\* input with StreamFromURL false and a nil downloader; in every other case,
\* and always for New with both paths given, the Transcoder is constructed.
C19_ConstructionValidates ==
    [][(pc = "new" /\ pc' # "new") =>
          IF options.InputPath = ""
          THEN pc' = "failed" /\ result' = ErrorsNew("validation_error", 1)
          ELSE IF options.OutputPath = ""
          THEN pc' = "failed" /\ result' = ErrorsNew("validation_error", 2)
          ELSE IF /\ ctor = "NewWithDeps"
                  /\ options.InputPath \in {"http://host/video.mp4", "https://host/video.mp4",
                                        "http://dns.host/video.mp4"}
                  /\ ~options.StreamFromURL
                  /\ downloader = "nil"
          THEN pc' = "failed" /\ result' = ErrorsNew("validation_error", 3)
          ELSE pc' = "checkFFmpeg" /\ result' = NoResult]_vars

C19_Witness ==
    /\ ctor = "NewWithDeps"
    /\ options.InputPath = SecureURL
    /\ ~options.StreamFromURL
    /\ downloader = "nil"
    /\ pc = "failed"
    /\ result = ErrorsNew("validation_error", 3)

\* C20: for a local input, input resolution answers a missing path with
\* FileNotFoundError 1200 and a directory with InvalidFileFormatError 1300;
\* for any other path it answers with the code of a violation the file has
\* (unreadable: PermissionError 1401, empty: InvalidFileFormatError 1302,
\* unsupported extension: InvalidFileFormatError 1301) and returns the path
\* itself when it has none. On a violation no encoder subprocess is started.
\* A file is unreadable when its Stat or its Open is denied; an Open that
\* fails for another reason is granted the SystemError 4 the code gives it.
C20_LocalInputClassified ==
    [][(/\ ~panicked
        /\ pc = "handleInput"
        /\ pc' # "handleInput" \/ panicked'
        /\ options.InputPath \notin {"http://host/video.mp4", "https://host/video.mp4",
                                        "http://dns.host/video.mp4"}) =>
          LET f  == FileSystem(options.InputPath)
              ext == Ext(options.InputPath)
              V  == IF f.stat = "notExist" THEN {1200}
                    ELSE IF f.stat = "ok" /\ f.isDir THEN {1300}
                    ELSE (IF f.stat = "permission" \/ f.open = "permission"
                          THEN {1401} ELSE {})
                         \cup (IF f.stat = "ok" /\ f.open = "other" THEN {4} ELSE {})
                         \cup (IF f.stat = "ok" /\ f.size = 0 THEN {1302} ELSE {})
                         \cup (IF ext \notin {".mp4", ".MP4"} THEN {1301} ELSE {})
              typeOf == [c \in {4, 1200, 1300, 1301, 1302, 1401} |->
                            IF c = 4 THEN "system_error"
                            ELSE IF c = 1200 THEN "file_not_found_error"
                            ELSE IF c = 1401 THEN "permission_error"
                            ELSE "invalid_file_format_error"]
          IN  /\ ~panicked'
              /\ IF V = {}
                 THEN pc' = "autoResolutions" /\ inputPath' = options.InputPath
                      /\ result' = NoResult
                 ELSE /\ pc' = "failed"
                      /\ result'.code \in V
                      /\ result' = ErrorsNew(typeOf[result'.code], result'.code)
                      /\ proc' = "none"]_vars

\* C30: after the first tier the resolutions hold exactly one tier for each
\* standard size of 1080, 720, 480, 360, 240 that is strictly smaller than the
\* source's larger dimension and whose computed dimensions are at least 160
\* wide and 90 high; the tiers come in that descending order, each holds its
\* standard size in the height for a portrait source and in the width
\* otherwise, and each carries the bitrates of the preset of its own size.
C30_TiersBelowSource ==
    resolutions # <<>> =>
        LET portrait == srcHeight > srcWidth
            small    == IF portrait THEN srcWidth ELSE srcHeight
            large    == IF portrait THEN srcHeight ELSE srcWidth
            sizes    == {1080, 720, 480, 360, 240}
            ratio100 == (200 * small + large) \div (2 * large)
            nearest  == [s \in sizes |-> (2 * s * ratio100 + 100) \div 200]
            raised   == [s \in sizes |-> IF nearest[s] < s \div 3 THEN s \div 3 ELSE nearest[s]]
            other    == [s \in sizes |-> raised[s] - (raised[s] % 2)]
            width    == [s \in sizes |-> IF portrait THEN other[s] ELSE s]
            height   == [s \in sizes |-> IF portrait THEN s ELSE other[s]]
            kept     == {s \in sizes : s < large /\ width[s] >= 160 /\ height[s] >= 90}
            preset   == [s \in sizes |->
                            CASE s = 1080 -> "1080p" [] s = 720 -> "720p" [] s = 480 -> "480p"
                              [] s = 360 -> "360p" [] s = 240 -> "240p"]
            held(i)  == IF portrait THEN resolutions[i].Height ELSE resolutions[i].Width
        IN  /\ Len(resolutions) = 1 + Cardinality(kept)
            /\ \A i \in 2..Len(resolutions) :
                  /\ held(i) \in kept
                  /\ resolutions[i] = VideoResolution(width[held(i)], height[held(i)],
                                                      DefaultBitrates(preset[held(i)]))
                  /\ i < Len(resolutions) => held(i) > held(i + 1)

C30_Witness ==
    /\ srcWidth = 100
    /\ srcHeight = 4096
    /\ Len(resolutions) = 4
    /\ resolutions[2].Height = 1080
    /\ resolutions[4].Width = 160
    /\ resolutions[4].Height = 480
    /\ resolutions[4].VideoBitrate = "1400k"

\* C21: for HLS output a ladder with a tier outside the bounds never reaches
\* the encoder. Once the output directory has passed its checks the tiers are
\* judged in ladder order and the first offending tier decides the result:
\* UnsupportedResolutionError 1801 for a width or height that is not positive,
\* else 1802 for a width above 7680 or a height above 4320, else 1803 for a
\* width below 128 or a height below 96.
C21_FirstOffendingTierDecides ==
    [][(pc = "createHLSStreams" /\ pc' # "createHLSStreams") =>
          LET L == options.HLSResolutions
              nonPositive(i) == L[i].Width <= 0 \/ L[i].Height <= 0
              tooHigh(i)     == L[i].Width > 7680 \/ L[i].Height > 4320
              tooLow(i)      == L[i].Width < 128 \/ L[i].Height < 96
              bad   == {i \in 1..Len(L) : nonPositive(i) \/ tooHigh(i) \/ tooLow(i)}
              first == CHOOSE i \in bad : \A j \in bad : i <= j
              code  == IF nonPositive(first) THEN 1801
                       ELSE IF tooHigh(first) THEN 1802
                       ELSE 1803
              directoryErrors == {ErrorsNew("permission_error", 1402),
                                  ErrorsNew("disk_space_error", 1100),
                                  ErrorsNew("system_error", 15),
                                  ErrorsNew("invalid_output_path_error", 1701)}
          IN  IF bad # {}
              THEN /\ pc' = "failed"
                   /\ proc' = "none"
                   /\ \/ result' \in directoryErrors
                      \/ result' = ErrorsNew("unsupported_resolution_error", code)
              ELSE result'.type # "unsupported_resolution_error"]_vars

C21_Witness ==
    /\ Len(options.HLSResolutions) = 2
    /\ options.HLSResolutions[2].Width = 8000
    /\ options.HLSResolutions[2].Height = 0
    /\ pc = "failed"
    /\ result = ErrorsNew("unsupported_resolution_error", 1801)
    /\ proc = "none"

\* C22: every structured error a Transcode call returns carries a code inside
\* the range of its category when the category is one of the nine that have a
\* range, and a code outside 1000..1899 when it is any other category.
C22_CodesPartitioned ==
    (result.kind = "err" /\ result.structured) =>
        IF CodeRange(result.type) # {}
        THEN result.code \in CodeRange(result.type)
        ELSE result.code \notin 1000..1899

\* A download failed with a timeout text and was returned as a network error.
C22_Witness ==
    /\ pc = "failed"
    /\ dlCalls = 1
    /\ result = ErrorsNew("network_error", 1001)
\* C29: when transcodeToMP4 runs with the output path already present and
\* AllowOverwrite false, it returns InvalidOutputPathError 1700, starts no
\* encoder subprocess and leaves the existing file as it was.
C29_RefusesOverwrite ==
    [][(/\ ~panicked
        /\ pc = "transcodeToMP4"
        /\ pc' # pc
        /\ outFile # "absent"
        /\ ~options.AllowOverwrite)
       => /\ pc' = "failed"
          /\ result' = ErrorsNew("invalid_output_path_error", 1700)
          /\ proc' = "none"
          /\ spawned' = spawned
          /\ outFile' = outFile]_vars

\* A single-output run over an existing output file was refused.
C29_Witness ==
    /\ pc = "failed"
    /\ options.OutputType = "mp4"
    /\ ~options.AllowOverwrite
    /\ outFile = "old"
    /\ result = ErrorsNew("invalid_output_path_error", 1700)
    /\ \A i \in DOMAIN spawned : spawned[i] # "ffmpeg"
\* C25: a success result names an existing file: CreateHLS and Transcode
\* return the master playlist's path, and transcodeToMP4 the output path,
\* only if that file is on disk when they return; an encoder that exits with
\* status 0 without having written it yields an error.
C25_SuccessNamesExistingFile ==
    (pc = "done" /\ result.kind = "ok") => outFile # "absent"
\* C24: an encoder subprocess that was started has been waited on (Wait has
\* completed) whenever CreateHLS or transcodeToMP4 is over, whether it
\* returned a result or was left by a panic of its own goroutine (the only
\* reporter call these functions make between Start and Wait is Start).
C24_StartedEncoderAwaited ==
    LET returned == pc \in {"done", "failed"}
        unwound  == panicked /\ lastOp.op = "Start"
    IN  ((returned \/ unwound) /\ proc # "none") => (proc = "exited" /\ pipeClosed)

\* C26: one Transcode call invokes Download at most once and starts the
\* encoder subprocess at most once; a failed download ends the call, and once
\* the call has failed neither is invoked again.
C26_SingleAttempt ==
    /\ [](/\ dlCalls <= 1
          /\ Cardinality({i \in DOMAIN spawned : spawned[i] = "ffmpeg"}) <= 1
          /\ (dlResult.kind = "err" => pc = "failed"))
    /\ [][pc = "failed" => (pc' = "failed" /\ dlCalls' = dlCalls /\ spawned' = spawned)]_vars

\* A download that reached the server failed and the call ended after that
\* one attempt.
C26_Witness ==
    /\ pc = "failed"
    /\ dlResult.kind = "err"
    /\ dlCalls = 1
    /\ requests = 1
    /\ result = ErrorsNew("download_error", 7)
\* C23: every blocking operation of Transcode is bound to the run's context:
\* once the context is cancelled no subprocess is started any more; a call
\* made with a context that is already cancelled starts none at all.
C23_CancelledStartsNoSubprocess ==
    [][ctxDone => spawned' = spawned]_vars
\* C28: a run passes through validating, resolving_input, probing_resolution
\* and building_ladder, dispatching and done or failed in that order, and the
\* encoder preflight belongs to dispatching: it is performed after input
\* resolution has succeeded.
C28_PreflightInDispatching ==
    [][LET Rank(ph) == IF ph = "validating" THEN 1
                       ELSE IF ph = "resolving_input" THEN 2
                       ELSE IF ph = "building_ladder" THEN 3
                       ELSE IF ph \in {"dispatching", "preflight"} THEN 4
                       ELSE 5
       IN  /\ Rank(Phase(pc')) >= Rank(Phase(pc))
           /\ (Phase(pc) = "preflight" /\ pc' # pc) => inputPath # ""]_vars

\* C28 (amended): the encoder preflight opens the run, before input
\* resolution; after it the phases follow in the order resolving_input,
\* probing_resolution and building_ladder, dispatching, done or failed. The
\* ladder bounds are validated in dispatching: the encoder is started only
\* with the preflight passed, the input resolved and, for an adaptive-stream
\* run, every tier of the ladder inside the bounds.
C28_PreflightBeforeInput ==
    [][LET Rank(ph) == IF ph = "validating" THEN 1
                       ELSE IF ph = "preflight" THEN 2
                       ELSE IF ph = "resolving_input" THEN 3
                       ELSE IF ph = "building_ladder" THEN 4
                       ELSE IF ph = "dispatching" THEN 5
                       ELSE 6
           ladder == options.HLSResolutions
       IN  /\ Rank(Phase(pc')) >= Rank(Phase(pc))
           /\ (Phase(pc) = "preflight" /\ pc' # pc) =>
                 (inputPath = "" /\ dlCalls = 0 /\ requests = 0)
           /\ (proc = "none" /\ proc' = "running") =>
                 /\ Phase(pc) = "dispatching"
                 /\ inputPath # ""
                 /\ \E i \in DOMAIN spawned : spawned[i] = "ffmpeg -codecs"
                 /\ (options.OutputType = "hls" =>
                        \A i \in DOMAIN ladder : TierCode(ladder[i]) = 0)]_vars

\* An adaptive-stream run over a downloaded input with an automatic ladder
\* went through every phase: preflight queries, download, probe, encoder.
C28_Witness ==
    /\ pc = "done"
    /\ options.OutputType = "hls"
    /\ options.UseAutoResolutions
    /\ dlCalls = 1
    /\ Len(spawned) >= 4
    /\ SubSeq(spawned, 1, 4) = <<"ffmpeg -version", "ffmpeg -codecs", "ffprobe", "ffmpeg">>
\* C27: each Transcode call works on its own copy of the configuration: the
\* ladder a call hands to the builder is the one generated from that call's
\* own probe, whatever another call on the same Transcoder does meanwhile.
C27_RunsIndependent ==
    \A r \in Runs :
        runPc[r] = "done" =>
            runTiers[r] = GenerateAutoResolutions(runDims[r][1], runDims[r][2])
\* C37: when the stat of a local input fails for a reason other than
\* non-existence, input resolution returns a structured error and never uses
\* the file information it did not get.
C37_StatFailureClassified ==
    [][(/\ ~panicked
        /\ pc = "handleInput"
        /\ ~options.IsRemoteInput
        /\ FileSystem(options.InputPath).stat \notin {"ok", "notExist"}
        /\ pc' # pc \/ panicked')
       => /\ ~panicked'
          /\ pc' = "failed"
          /\ result'.structured]_vars
\* C34: no sequence of Start, Update, Increment and Complete calls on one
\* reporter, a Start or Complete after an earlier Complete included, sends on
\* or closes the update channel once it is closed (either is a run-time panic).
C34_NoSendOnClosedChannel ==
    ~(chClosed /\ panicked)
\* C38: Start, Update, Increment and Complete never block on the update
\* stream: with the buffer full and nobody reading, each call can still be
\* made, returns having updated the reporter's state, and leaves the buffer
\* as it was (the snapshot is dropped).
C38_CallsNeverBlock ==
    /\ []((Len(updatesCh) = ChanCap /\ ~panicked /\ calls < MaxBufCalls)
            => (ENABLED BufStart /\ ENABLED BufUpdate /\ ENABLED BufIncrement
                /\ ENABLED BufComplete))
    /\ [][(Len(updatesCh) = ChanCap /\ calls' = calls + 1)
            => /\ ~panicked'
               /\ updatesCh' = updatesCh
               /\ (lastOp'.op = "Start" =>
                      Event'.Status = "started" /\ Bar' = "set" /\ Current' = 0)
               /\ (lastOp'.op = "Update" /\ Bar = "set" =>
                      /\ Event'.Status = "processing"
                      /\ Current' \in {1, IF Current + 1 > Total THEN Total ELSE Current + 1})
               /\ (lastOp'.op = "Complete" /\ Bar = "set" =>
                      Event'.Status = "completed" /\ Bar' = "nil" /\ chClosed')]_vars
\* C36: a Transcode call that returns an error never leaves the reporter in
\* status "completed": Complete is called only by a stage that succeeded, and
\* a run that fails after it is not reported as completed.
C36_FailedRunNotCompleted ==
    (pc = "failed" /\ result.kind = "err") => Event.Status # "completed"
\* C33: in the builder, when a progress sink is present, the frame-count
\* estimate and the Start it leads to on the sink are made before the encoder
\* subprocess is spawned.
C33_EstimateBeforeSpawn ==
    [][(/\ pc = "estimateTotalFrames"
        /\ pc' # pc
        /\ progRep # "nil")
       => (proc = "none" /\ \A i \in DOMAIN spawned : spawned[i] # "ffmpeg")]_vars
\* C32: in direct-stream mode the probe gives each failure its own result:
\* a timeout NetworkError 1001, a DNS-resolution failure 1002, any other
\* connection failure 1000, a non-success status 1003 and a non-video content
\* type InvalidFileFormatError 1300; on success the URL itself is passed on;
\* the downloader is never invoked.
C32_ProbeClassifies ==
    [][(/\ ~panicked
        /\ pc = "handleInput"
        /\ options.IsRemoteInput /\ options.StreamFromURL
        /\ pc' # pc)
       => /\ dlCalls' = 0
          /\ (pc' # "failed" => inputPath' = options.InputPath)
          /\ (respStatus' # respStatus /\ (respStatus' < 200 \/ respStatus' >= 300))
                => (pc' = "failed" /\ result'.type = "network_error" /\ result'.code = 1003)
          /\ (pc' = "failed" /\ result'.code = 1300) =>
                (result'.type = "invalid_file_format_error" /\ result'.details # "video/mp4")
          /\ (pc' = "failed" /\ respStatus' = respStatus /\ "details" \in DOMAIN result') =>
                /\ result'.type = "network_error"
                /\ result'.details = "timeout" => result'.code = 1001
                /\ result'.details = "noSuchHost" => result'.code = 1002
                /\ result'.details = "dnsTimeout" => result'.code \in {1001, 1002}
                /\ result'.details \in {"refused", "reset", "canceled"} => result'.code = 1000]_vars
\* C39: Download creates or truncates the destination only after a response
\* with status 200 has been received: when the request cannot be created, the
\* request fails or the status is rejected, the destination file is left as
\* it was, also with AllowOverride true.
C39_DestinationKeptUntilAccepted ==
    [][(~panicked /\ pc = "download" /\ pc' # pc)
       => /\ destFile' # destFile =>
                (respStatus' = 200 /\ requests' = requests + 1 /\ pc' = "copy")
          /\ (dlResult'.kind = "err" /\ dlResult'.code \in {2, 3, 4}) =>
                destFile' = destFile]_vars

\* With AllowOverride true and the destination present, the server answered
\* 404: the call failed and the old file is still there.
C39_Witness ==
    /\ pc = "returned"
    /\ options.AllowOverwrite
    /\ respStatus = 404
    /\ dlResult.kind = "err"
    /\ dlResult.code = 4
    /\ destFile = OldFile
\* C35: for every source whose own dimensions lie inside the orchestrator's
\* bounds (128 <= width <= 7680 and 96 <= height <= 4320), every tier of the
\* resolutions produced by GenerateAutoResolutions passes the orchestrator's
\* validation of the tiers, so the generated resolutions are never rejected.
C35_AutoLadderPassesValidation ==
    (/\ resolutions # <<>>
     /\ srcWidth >= 128 /\ srcWidth <= 7680
     /\ srcHeight >= 96 /\ srcHeight <= 4320)
        => /\ \A i \in 1..Len(resolutions) : TierCode(resolutions[i]) = 0
           /\ ValidateResolutions(resolutions) = 0
\* ---------------------------------------------------------------------------
\* The arguments of the encoder: hls.New over the options a caller may give,
\* then buildFFmpegArgs.
InitArgs ==
    /\ InitCommon
    /\ fsWritable = TRUE
    /\ NewReporter(0, "", "text")
    /\ file = NoFile
    /\ NoRun
    /\ srcWidth = 0
    /\ srcHeight = 0
    /\ resolutions = <<>>
    /\ \E o \in RawHlsOptions : genOptions = HlsNew(o)
    /\ ffmpegArgs = <<>>
    /\ NoEnv
    /\ NoShare

NextArgs == buildFFmpegArgs

SpecArgs == InitArgs /\ [][NextArgs]_vars
\* C31 as stated: for Resolutions of N tiers buildFFmpegArgs returns, in this
\* order, "-i" and the input; the filter graph "split=N" with the labels
\* v0..v(N-1) and one scale clause per tier i with tier i's width and height;
\* the codec and bitrate options of each tier indexed by i; the HLS options;
\* the variant stream map pairing "v:i,a:i" for i = 0..N-1 in order; the extra
\* parameters; and the output pattern as the last element.
C31_MapAlwaysPairsTiers ==
    ffmpegArgs # <<>> =>
        LET o        == genOptions
            tiers    == o.Resolutions
            N        == Len(tiers)
            extra    == o.FFmpegExtraParams
            num(i)   == ToString(i)
            labels[n \in 0..N] ==
                IF n = 0 THEN "" ELSE labels[n - 1] \o "[v" \o num(n - 1) \o "]"
            scales[n \in 0..N] ==
                IF n = 0 THEN ""
                ELSE scales[n - 1] \o (IF n = 1 THEN "" ELSE "; ")
                         \o "[v" \o num(n - 1) \o "]scale=w=" \o num(tiers[n].Width)
                         \o ":h=" \o num(tiers[n].Height) \o "[v" \o num(n - 1) \o "out]"
            pairs[n \in 0..N] ==
                IF n = 0 THEN ""
                ELSE pairs[n - 1] \o (IF n = 1 THEN "" ELSE " ")
                         \o "v:" \o num(n - 1) \o ",a:" \o num(n - 1)
            at(i)    == 4 + 18 * i
            h        == 4 + 18 * N
            last     == ffmpegArgs[Len(ffmpegArgs)]
            pattern  == "stream_%v/playlist.m3u8"
        IN  /\ N >= 1
            /\ Len(ffmpegArgs) = h + 16 + Len(extra) + 1
            /\ SubSeq(ffmpegArgs, 1, 3) = << "-i", o.InputFile, "-filter_complex" >>
            /\ ffmpegArgs[4] = "[0:v]split=" \o num(N) \o labels[N] \o "; " \o scales[N]
            /\ \A i \in 0..(N - 1) :
                  SubSeq(ffmpegArgs, at(i) + 1, at(i) + 18) =
                      << "-map", "[v" \o num(i) \o "out]",
                         "-c:v:" \o num(i), "libx264",
                         "-b:v:" \o num(i), tiers[i + 1].VideoBitrate,
                         "-maxrate:v:" \o num(i), tiers[i + 1].MaxRate,
                         "-bufsize:v:" \o num(i), tiers[i + 1].BufSize,
                         "-map", "a:0",
                         "-c:a:" \o num(i), "aac",
                         "-b:a:" \o num(i), tiers[i + 1].AudioBitrate,
                         "-ac", "2" >>
            /\ SubSeq(ffmpegArgs, h + 1, h + 10) =
                   << "-f", "hls", "-hls_time", num(o.SegmentDuration),
                      "-hls_playlist_type", o.PlaylistType,
                      "-hls_flags", "independent_segments",
                      "-hls_segment_type", o.SegmentFormat >>
            /\ ffmpegArgs[h + 11] = "-hls_segment_filename"
            /\ SubSeq(ffmpegArgs, h + 13, h + 15) =
                   << "-master_pl_name", o.MasterPlaylist, "-var_stream_map" >>
            /\ ffmpegArgs[h + 16] = pairs[N]
            /\ SubSeq(ffmpegArgs, h + 17, h + 16 + Len(extra)) = extra
            /\ Len(last) >= Len(pattern)
            /\ SubSeq(last, Len(last) - Len(pattern) + 1, Len(last)) = pattern
            /\ o.OutputDir = "out" => last = "out/" \o pattern

\* C31, amended: the same vector, where the variant stream map is the
\* generator's VariantStreamMap option when one is set, and pairs "v:i,a:i"
\* for i = 0..N-1 in order when it is not.
C31_FixedOrderVector ==
    ffmpegArgs # <<>> =>
        LET o        == genOptions
            tiers    == o.Resolutions
            N        == Len(tiers)
            extra    == o.FFmpegExtraParams
            num(i)   == ToString(i)
            labels[n \in 0..N] ==
                IF n = 0 THEN "" ELSE labels[n - 1] \o "[v" \o num(n - 1) \o "]"
            scales[n \in 0..N] ==
                IF n = 0 THEN ""
                ELSE scales[n - 1] \o (IF n = 1 THEN "" ELSE "; ")
                         \o "[v" \o num(n - 1) \o "]scale=w=" \o num(tiers[n].Width)
                         \o ":h=" \o num(tiers[n].Height) \o "[v" \o num(n - 1) \o "out]"
            pairs[n \in 0..N] ==
                IF n = 0 THEN ""
                ELSE pairs[n - 1] \o (IF n = 1 THEN "" ELSE " ")
                         \o "v:" \o num(n - 1) \o ",a:" \o num(n - 1)
            at(i)    == 4 + 18 * i
            h        == 4 + 18 * N
            last     == ffmpegArgs[Len(ffmpegArgs)]
            pattern  == "stream_%v/playlist.m3u8"
        IN  /\ N >= 1
            /\ Len(ffmpegArgs) = h + 16 + Len(extra) + 1
            /\ SubSeq(ffmpegArgs, 1, 3) = << "-i", o.InputFile, "-filter_complex" >>
            /\ ffmpegArgs[4] = "[0:v]split=" \o num(N) \o labels[N] \o "; " \o scales[N]
            /\ \A i \in 0..(N - 1) :
                  SubSeq(ffmpegArgs, at(i) + 1, at(i) + 18) =
                      << "-map", "[v" \o num(i) \o "out]",
                         "-c:v:" \o num(i), "libx264",
                         "-b:v:" \o num(i), tiers[i + 1].VideoBitrate,
                         "-maxrate:v:" \o num(i), tiers[i + 1].MaxRate,
                         "-bufsize:v:" \o num(i), tiers[i + 1].BufSize,
                         "-map", "a:0",
                         "-c:a:" \o num(i), "aac",
                         "-b:a:" \o num(i), tiers[i + 1].AudioBitrate,
                         "-ac", "2" >>
            /\ SubSeq(ffmpegArgs, h + 1, h + 10) =
                   << "-f", "hls", "-hls_time", num(o.SegmentDuration),
                      "-hls_playlist_type", o.PlaylistType,
                      "-hls_flags", "independent_segments",
                      "-hls_segment_type", o.SegmentFormat >>
            /\ ffmpegArgs[h + 11] = "-hls_segment_filename"
            /\ SubSeq(ffmpegArgs, h + 13, h + 15) =
                   << "-master_pl_name", o.MasterPlaylist, "-var_stream_map" >>
            /\ ffmpegArgs[h + 16] = IF o.VariantStreamMap = "" THEN pairs[N] ELSE o.VariantStreamMap
            /\ SubSeq(ffmpegArgs, h + 17, h + 16 + Len(extra)) = extra
            /\ Len(last) >= Len(pattern)
            /\ SubSeq(last, Len(last) - Len(pattern) + 1, Len(last)) = pattern
            /\ o.OutputDir = "out" => last = "out/" \o pattern

C31_Witness ==
    /\ ffmpegArgs # <<>>
    /\ Len(genOptions.Resolutions) = 2
    /\ genOptions.Resolutions[1].Width = 1280
    /\ genOptions.Resolutions[2].Width = 640
    /\ genOptions.VariantStreamMap = ""
    /\ genOptions.FFmpegExtraParams = <<"-preset", "fast">>
    /\ ffmpegArgs[Len(ffmpegArgs) - 3] = "v:0,a:0 v:1,a:1"
    /\ ffmpegArgs[Len(ffmpegArgs)] = "out/stream_%v/playlist.m3u8"
====
